---- MODULE Spec2Model ----
(***************************************************************************)
(* Catalogue ordering application: the client-side PDF page pipeline.      *)
(*   CataloguePreviewPage  lazy page loader + selection (route /catalogue) *)
(*   CartPage              checkout of a handed-off selection (route /cart)*)
(*   CatalogueApp          single-component browse / select / checkout     *)
(*   AdminPanel            downloadOrderPDF (page-subset extraction)       *)
(*   CatalogueCard         loadCoverImage (cover selector)                 *)
(***************************************************************************)
EXTENDS Integers, Sequences, FiniteSets, Bags, TLC

(* ------------------------------ bounds -------------------------------- *)
\* Page counts of the two documents stored for the loader specification.
LargeDocPages == 10
SmallDocPages == 3
\* Asynchronous calls (loadCatalogue, loadMorePages) in flight at once.
MaxInflight == 2
\* Changes of the route parameter :catalogueId while one page stays mounted.
MaxSwitch == 1
\* Pages selected at once.
MaxSel == 3
\* Rows in the orders table.
MaxOrders == 1

(* ----------------------------- constants ------------------------------ *)
Null == "null"
\* The users of auth.users, and the mark of a user without a user_roles row.
UserIds == {"u1", "u2"}
NoRow == "none"
CatIds == {"A", "B"}

Min(a, b) == IF a < b THEN a ELSE b

VARIABLES
    \* ---- datastore
    catalogues,        \* catalogues table: id -> [page_count, cover_page]
    orders,            \* orders table: the rows in insertion order
    \* ---- router
    route,             \* "home" | "preview" | "cart"
    \* ---- CataloguePreviewPage
    pv_catalogueId,    \* useParams().catalogueId
    pv_catalogue,      \* catalogue row (its id) or Null
    pv_pdfPages,       \* materialized pages, each [pageNumber, doc]
    pv_isLoading,
    pv_selectedItems,  \* Set<number>, kept in insertion order
    pv_pdfDoc,         \* document handle (the id of the document) or Null
    isMobile,          \* useIsMobile()
    pv_loads,          \* loadCatalogue calls in flight
    pv_mores,          \* loadMorePages calls in flight
    pv_switches,       \* route parameter changes since the page mounted
    more_last,         \* history: the last two settled loadMorePages calls, newest first
    notify_last,       \* history: the outcome of the last settled notification call
    \* ---- CartPage
    cart_catalogueId,      \* "" until the hand-off is taken
    cart_selectedPages,
    cart_customerInfo,     \* [name, email, phone, company_name, address, notes]
    cart_isSubmitting,
    cart_showSuccess,
    cart_submits,          \* handleSubmitOrder calls in flight
    cart_timers,           \* redirect timers pending (a count)
    \* ---- CatalogueApp
    app_catalogues,        \* ids of the catalogues in the home list
    app_selectedCatalogue, \* catalogue (its id) or Null
    app_pdfPages,
    app_isLoading,
    app_selectedItems,     \* Set<number>, kept in insertion order
    app_currentView,       \* "home" | "catalogue" | "cart" | "admin-login" | "admin"
    app_customerInfo,      \* [name, email, phone, company_name, address, notes]
    app_isSubmitting,
    app_showSuccess,
    app_isAdmin,
    app_listLoads,         \* loadCatalogues calls in flight (a count)
    app_loads,             \* loadCatalogue calls in flight (catalogue ids)
    app_submits,           \* handleSubmitOrder calls in flight
    app_timers,            \* auto-reset timers pending (a count)
    sel_last,              \* history: [page, before] of the last two toggles, newest first
    \* ---- AdminPanel
    admin_catalogues,  \* ids of the catalogues loaded into the panel
    ex_calls,          \* downloadOrderPDF calls in flight (order indices)
    ex_file,           \* <<the file the last finished call downloaded>>, or <<>>
    ex_made,           \* history: the last two files downloaded, newest first
    \* ---- CatalogueCard
    card_catalogue,    \* props.catalogue (its id)
    card_coverImage,   \* <<rendered cover page>>, or <<>> for null
    card_isLoadingCover,
    card_pageNum,      \* <<the page number last handed to pdf.getPage>>, or <<>>
    card_calls,        \* loadCoverImage calls in flight
    \* ---- staff panels and the tables behind them
    catalogue_names,   \* catalogues table: id -> name
    orders_nextId,     \* the id the next inserted order row gets
    db_calls,          \* staff operations on orders and catalogues in flight
    \* ---- DashboardRouter, DesignerDashboard and the user_roles table
    user_roles,        \* user_roles table: user id -> role, or NoRow
    dash_view,         \* "none" | "router" (/dashboard) | "designer" (/dashboard/designer)
    dash_user,         \* the user prop: a user id, or Null
    dr_userRole,       \* DashboardRouter.userRole: a role or Null
    dr_isLoading,
    dr_calls,          \* getUserRole calls in flight (a count)
    dd_mounted,        \* a DesignerDashboard is rendered
    dd_isLoading,
    dd_jobs,           \* DesignerDashboard.jobs is non-empty
    dd_calls,          \* loadAssignedJobs calls in flight (their stages)
    \* ---- invoices table and FinanceDashboard
    invoices,          \* invoices table: the sequence numbers of the stored invoice numbers
    inv_calls,         \* createInvoice / createInvoiceFromOrder calls in flight
    \* ---- useToast
    toast              \* the toast the last step showed: "none" | "error" | "success"

pvVars == <<pv_catalogueId, pv_catalogue, pv_pdfPages, pv_isLoading,
            pv_selectedItems, pv_pdfDoc, pv_loads, pv_mores, pv_switches>>
cartVars == <<cart_catalogueId, cart_selectedPages, cart_customerInfo,
              cart_isSubmitting, cart_showSuccess, cart_submits, cart_timers>>
appVars == <<app_catalogues, app_selectedCatalogue, app_pdfPages, app_isLoading,
             app_selectedItems, app_currentView, app_customerInfo, app_isSubmitting,
             app_showSuccess, app_isAdmin, app_listLoads, app_loads, app_submits,
             app_timers, sel_last>>
exVars == <<admin_catalogues, ex_calls, ex_file>>
cardVars == <<card_catalogue, card_coverImage, card_isLoadingCover, card_pageNum, card_calls>>
ordVars == <<catalogue_names, orders_nextId, db_calls>>
dashVars == <<user_roles, dash_view, dash_user, dr_userRole, dr_isLoading, dr_calls,
              dd_mounted, dd_isLoading, dd_jobs, dd_calls>>
invVars == <<invoices, inv_calls>>
staffVars == <<ordVars, dashVars, invVars>>
vars == <<catalogues, orders, route, pvVars, isMobile, cartVars, appVars, exVars,
          cardVars, toast, more_last, notify_last, ex_made, staffVars>>

\* what the CataloguePreviewPage operations leave alone
pvOthers == <<catalogues, orders, isMobile, cartVars, appVars, exVars, cardVars, notify_last,
              ex_made, staffVars>>
pvFrame == <<pvOthers, more_last>>
\* what the operations of the two routed pages leave alone (orders aside)
shopFrame == <<catalogues, isMobile, appVars, exVars, cardVars, more_last, notify_last,
               ex_made, staffVars>>

\* A stored cover_page: a number, null, or absent from the row object.
CoverNum(n) == [k |-> "num", n |-> n]
CoverNull == [k |-> "null", n |-> 0]
CoverUndefined == [k |-> "undefined", n |-> 0]

CatalogueRow(n, cover) == [page_count |-> n, cover_page |-> cover]

\* a row of the orders table (status DEFAULT 'pending')
OrderRow(cat, info, pages) ==
    [catalogue_id |-> cat, catalogue_name |-> cat, customer |-> info,
     selected_pages |-> pages, status |-> "pending"]

\* pdf.numPages / getPageCount() of the stored file
numPages(doc) == catalogues[doc].page_count

\* the pages of a stored file, by content
srcPages(doc) == [i \in 1..numPages(doc) |-> [pageNumber |-> i, doc |-> doc]]

(* ------------------- selection and customer form ---------------------- *)
emptyCustomerInfo ==
    [name |-> "", email |-> "", phone |-> "", company_name |-> "", address |-> "", notes |-> ""]

RequiredFields == {"name", "email", "phone"}
OptionalFields == {"company_name", "address", "notes"}

\* A first guard that never fires (for sensitivity runs).
selectionIsEmptyNever(selection) == FALSE

\* selectedItems.size === 0 / selectedPages.length === 0
selectionIsEmpty(selection) == Len(selection) = 0

\* A second guard that looks at the name only (for sensitivity runs).
requiredFieldsMissingNameOnly(customerInfo) == customerInfo.name = ""

\* !customerInfo.name || !customerInfo.email || !customerInfo.phone
requiredFieldsMissing(customerInfo) ==
    \/ customerInfo.name = ""
    \/ customerInfo.email = ""
    \/ customerInfo.phone = ""

\* selectedItems.has(pageNumber)
has(selectedItems, pageNumber) ==
    \E k \in DOMAIN selectedItems : selectedItems[k] = pageNumber

Members(selectedItems) == {selectedItems[k] : k \in DOMAIN selectedItems}

\* newSelected.delete(pageNumber) / newSelected.add(pageNumber) on a copy
\* (AddOnly: the variant without the delete branch, for sensitivity runs)
toggleItemSelectionAddOnly(selectedItems, pageNumber) ==
    IF has(selectedItems, pageNumber) THEN selectedItems
    ELSE Append(selectedItems, pageNumber)
toggleItemSelection(selectedItems, pageNumber) ==
    IF has(selectedItems, pageNumber)
    THEN SelectSeq(selectedItems, LAMBDA x : x # pageNumber)
    ELSE Append(selectedItems, pageNumber)

\* one insertion step of sort((a, b) => a - b): x placed after the elements <= x
InsertSorted(x, s) ==
    LET k == Cardinality({i \in DOMAIN s : s[i] <= x})
    IN  SubSeq(s, 1, k) \o <<x>> \o SubSeq(s, k + 1, Len(s))

\* Array.from(selectedItems).sort((a, b) => a - b)
RECURSIVE sortAscending(_)
\* (Unsorted: Array.from alone, for sensitivity runs)
sortAscendingUnsorted(s) == s
sortAscending(s) ==
    IF s = <<>> THEN <<>>
    ELSE InsertSorted(s[Len(s)], sortAscending(SubSeq(s, 1, Len(s) - 1)))

(* --------------------- CataloguePreviewPage ---------------------------- *)
\* isMobile ? 2 : 4
BatchSize(mobile) == IF mobile THEN 2 ELSE 4

\* Math.min(pdf.numPages, isMobile ? 2 : 4)
initialPages(n, mobile) == Min(n, BatchSize(mobile))

\* Math.min(pdfDoc.numPages, pdfPages.length + (isMobile ? 2 : 4))
nextBatch(n, len, mobile) == Min(n, len + BatchSize(mobile))

\* renderPage(pdf, i) for i = from..to, pushed in loop order
renderPages(doc, from, to) ==
    [k \in 1..(IF to >= from THEN to - from + 1 ELSE 0) |->
        [pageNumber |-> from + k - 1, doc |-> doc]]

PvFresh ==
    /\ pv_catalogue' = Null
    /\ pv_pdfPages' = <<>>
    /\ pv_isLoading' = FALSE
    /\ pv_selectedItems' = <<>>
    /\ pv_pdfDoc' = Null

\* Calls in flight are bags of call records: the calls are told apart only by
\* what they captured and how far they got.
Add(bag, r) == bag (+) SetToBag({r})
Del(bag, r) == bag (-) SetToBag({r})

\* A loadCatalogue call whose page has unmounted: its state setters no longer
\* act, its catch block still toasts.
DeadLoad == [id |-> Null, stage |-> "dead"]
Unmounted(bag) ==
    LET n == BagCardinality(bag)
    IN  IF n = 0 THEN EmptyBag ELSE [r \in {DeadLoad} |-> n]

Inflight == BagCardinality(pv_loads) + BagCardinality(pv_mores)

NewLoad(id) == [id |-> id, stage |-> "select"]

\* Route /catalogue/:catalogueId entered: the page mounts with fresh state and
\* its effect calls loadCatalogue().
PvMount(id) ==
    /\ route = "home"
    /\ Inflight < MaxInflight
    /\ route' = "preview"
    /\ pv_catalogueId' = id
    /\ pv_catalogue' = Null
    /\ pv_pdfPages' = <<>>
    /\ pv_selectedItems' = <<>>
    /\ pv_pdfDoc' = Null
    /\ pv_isLoading' = TRUE
    /\ pv_loads' = Add(pv_loads, NewLoad(id))
    /\ pv_mores' = pv_mores
    /\ pv_switches' = 0
    /\ toast' = "none"
    /\ UNCHANGED pvFrame

\* The route parameter changes while the page stays mounted: the effect on
\* [catalogueId] calls loadCatalogue() again; no state is reset.
PvChangeCatalogueId(id) ==
    /\ route = "preview"
    /\ id # pv_catalogueId
    /\ pv_switches < MaxSwitch
    /\ pv_switches' = pv_switches + 1
    /\ Inflight < MaxInflight
    /\ pv_catalogueId' = id
    /\ pv_isLoading' = TRUE
    /\ pv_loads' = Add(pv_loads, NewLoad(id))
    /\ pv_mores' = pv_mores
    /\ toast' = "none"
    /\ UNCHANGED pvFrame
    /\ UNCHANGED <<route, pv_catalogue, pv_pdfPages,
                   pv_selectedItems, pv_pdfDoc>>

\* loadCatalogue: a failure at any await runs catch (toast) and finally.
LoadCatalogueFail(r) ==
    /\ pv_loads' = Del(pv_loads, r)
    /\ pv_isLoading' = FALSE
    /\ toast' = "error"
    /\ UNCHANGED <<pv_catalogue, pv_pdfDoc, pv_pdfPages>>

\* loadCatalogue: the catalogues query resolves.
LoadCatalogueSelect(r, ok) ==
    /\ BagIn(r, pv_loads)
    /\ r.stage = "select"
    /\ IF ok
       THEN /\ pv_catalogue' = r.id
            /\ pv_loads' = Add(Del(pv_loads, r), [r EXCEPT !.stage = "fetch"])
            /\ toast' = "none"
            /\ UNCHANGED <<pv_pdfDoc, pv_pdfPages, pv_isLoading>>
       ELSE LoadCatalogueFail(r)
    /\ UNCHANGED pvFrame
    /\ UNCHANGED <<route, pv_catalogueId, pv_selectedItems, pv_mores, pv_switches>>

\* loadCatalogue: fetch + arrayBuffer + getDocument resolve.
LoadCatalogueFetch(r, ok) ==
    /\ BagIn(r, pv_loads)
    /\ r.stage = "fetch"
    /\ IF ok
       THEN /\ pv_pdfDoc' = r.id
            /\ pv_loads' = Add(Del(pv_loads, r), [r EXCEPT !.stage = "render"])
            /\ toast' = "none"
            /\ UNCHANGED <<pv_catalogue, pv_pdfPages, pv_isLoading>>
       ELSE LoadCatalogueFail(r)
    /\ UNCHANGED pvFrame
    /\ UNCHANGED <<route, pv_catalogueId, pv_selectedItems, pv_mores, pv_switches>>

\* A loadCatalogue that hands the pages rendered before a failing one to
\* setPdfPages: the initial batch is no longer shown all together.
LoadCatalogueRenderPartial(r, ok) ==
    /\ BagIn(r, pv_loads)
    /\ r.stage = "render"
    /\ pv_pdfPages' = renderPages(r.id, 1, initialPages(numPages(r.id), isMobile)
                                             - (IF ok THEN 0 ELSE 1))
    /\ pv_isLoading' = FALSE
    /\ pv_loads' = Del(pv_loads, r)
    /\ toast' = IF ok THEN "none" ELSE "error"
    /\ UNCHANGED <<pv_catalogue, pv_pdfDoc>>
    /\ UNCHANGED pvFrame
    /\ UNCHANGED <<route, pv_catalogueId, pv_selectedItems, pv_mores, pv_switches>>

\* loadCatalogue: the first pages are rendered; setPdfPages(pages); finally.
LoadCatalogueRender(r, ok) ==
    /\ BagIn(r, pv_loads)
    /\ r.stage = "render"
    /\ IF ok
       THEN /\ pv_pdfPages' = renderPages(r.id, 1, initialPages(numPages(r.id), isMobile))
            /\ pv_isLoading' = FALSE
            /\ pv_loads' = Del(pv_loads, r)
            /\ toast' = "none"
            /\ UNCHANGED <<pv_catalogue, pv_pdfDoc>>
       ELSE LoadCatalogueFail(r)
    /\ UNCHANGED pvFrame
    /\ UNCHANGED <<route, pv_catalogueId, pv_selectedItems, pv_mores, pv_switches>>

\* A loadCatalogue call of an unmounted page settles: nothing of the page is
\* left to update; a failure still reaches toast().
LoadCatalogueDead(ok) ==
    /\ BagIn(DeadLoad, pv_loads)
    /\ pv_loads' = Del(pv_loads, DeadLoad)
    /\ toast' = IF ok THEN "none" ELSE "error"
    /\ UNCHANGED pvFrame
    /\ UNCHANGED <<route, pv_catalogueId, pv_catalogue, pv_pdfPages,
                   pv_isLoading, pv_selectedItems, pv_pdfDoc, pv_mores, pv_switches>>

\* {pdfDoc && pdfPages.length < pdfDoc.numPages && <Button onClick={loadMorePages}>}
\* inside {pdfPages.length > 0 && ...}
LoadMoreShown ==
    /\ Len(pv_pdfPages) > 0
    /\ pv_pdfDoc # Null
    /\ Len(pv_pdfPages) < numPages(pv_pdfDoc)

\* if (!pdfDoc || pdfPages.length >= pdfDoc.numPages) return;
loadMoreReturnsEarly ==
    \/ pv_pdfDoc = Null
    \/ Len(pv_pdfPages) >= numPages(pv_pdfDoc)

\* loadMorePages is called: it returns early, or captures pdfDoc and
\* pdfPages.length and starts rendering the next batch.
LoadMorePages ==
    /\ route = "preview"
    /\ IF loadMoreReturnsEarly
       THEN /\ toast' = "none"
            /\ UNCHANGED pv_mores
       ELSE /\ LoadMoreShown
            /\ Inflight < MaxInflight
            /\ pv_mores' = Add(pv_mores,
                 [doc |-> pv_pdfDoc, len |-> Len(pv_pdfPages),
                  to |-> nextBatch(numPages(pv_pdfDoc), Len(pv_pdfPages), isMobile)])
            /\ toast' = "none"
    /\ UNCHANGED pvFrame
    /\ UNCHANGED <<route, pv_catalogueId, pv_catalogue,
                   pv_pdfPages, pv_isLoading, pv_selectedItems, pv_pdfDoc, pv_loads, pv_switches>>

\* A loadMorePages that hands the pages rendered before the failing one to
\* setPdfPages: the batch is no longer all-or-nothing.
LoadMoreDonePartial(r, ok) ==
    /\ BagIn(r, pv_mores)
    /\ pv_mores' = Del(pv_mores, r)
    /\ pv_pdfPages' = pv_pdfPages \o renderPages(r.doc, r.len + 1, IF ok THEN r.to ELSE r.to - 1)
    /\ toast' = "none"
    /\ UNCHANGED pvOthers
    /\ UNCHANGED <<route, pv_catalogueId, pv_catalogue,
                   pv_isLoading, pv_selectedItems, pv_pdfDoc, pv_loads, pv_switches>>

\* The batch of a loadMorePages call has rendered (or a renderPage threw, which
\* leaves the promise rejected): setPdfPages(prev => [...prev, ...newPages]).
LoadMoreDone(r, ok) ==
    /\ BagIn(r, pv_mores)
    /\ pv_mores' = Del(pv_mores, r)
    /\ IF ok
       THEN pv_pdfPages' = pv_pdfPages \o renderPages(r.doc, r.len + 1, r.to)
       ELSE pv_pdfPages' = pv_pdfPages
    /\ toast' = "none"
    /\ UNCHANGED pvOthers
    /\ UNCHANGED <<route, pv_catalogueId, pv_catalogue,
                   pv_isLoading, pv_selectedItems, pv_pdfDoc, pv_loads, pv_switches>>

\* navigate('/'): the page unmounts. Calls still in flight outlive it; the
\* state setters of an unmounted component do nothing, so a loadMorePages call
\* (which has no other effect) is dropped here.
PvNavigateHome ==
    /\ route = "preview"
    /\ route' = "home"
    /\ PvFresh
    /\ pv_loads' = Unmounted(pv_loads)
    /\ pv_mores' = EmptyBag
    /\ pv_switches' = 0
    /\ toast' = "none"
    /\ UNCHANGED <<pvFrame, pv_catalogueId>>


\* The page tiles are rendered when pdfPages is non-empty and the page is not
\* showing "Catalogue not found" (!catalogue && !isLoading).
PvGridShown ==
    /\ route = "preview"
    /\ ~(pv_catalogue = Null /\ ~pv_isLoading)
    /\ Len(pv_pdfPages) > 0

\* A page tile is clicked.
PvToggleItemSelection(p) ==
    /\ PvGridShown
    /\ \E k \in DOMAIN pv_pdfPages : pv_pdfPages[k].pageNumber = p
    /\ has(pv_selectedItems, p) \/ Len(pv_selectedItems) < MaxSel
    /\ pv_selectedItems' = toggleItemSelection(pv_selectedItems, p)
    /\ toast' = "none"
    /\ UNCHANGED pvFrame
    /\ UNCHANGED <<route, pv_catalogueId, pv_catalogue, pv_pdfPages, pv_isLoading,
                   pv_pdfDoc, pv_loads, pv_mores, pv_switches>>

\* navigateToCart (button shown when selectedItems.size > 0): the preview page
\* unmounts; CartPage mounts and takes catalogueId and Array.from(selectedItems)
\* from location.state; its render of a non-empty list sorts the array in place.
PvNavigateToCart ==
    /\ route = "preview"
    /\ ~(pv_catalogue = Null /\ ~pv_isLoading)
    /\ Len(pv_selectedItems) > 0
    /\ route' = "cart"
    /\ PvFresh
    /\ pv_loads' = Unmounted(pv_loads)
    /\ pv_mores' = EmptyBag
    /\ pv_switches' = 0
    /\ cart_catalogueId' = pv_catalogueId
    /\ cart_selectedPages' = sortAscending(pv_selectedItems)
    /\ cart_customerInfo' = emptyCustomerInfo
    /\ cart_isSubmitting' = FALSE
    /\ cart_showSuccess' = FALSE
    /\ toast' = "none"
    /\ UNCHANGED <<shopFrame, orders, pv_catalogueId, cart_submits, cart_timers>>

(* ------------------------------- CartPage ------------------------------ *)
\* A handleSubmitOrder call whose page has unmounted: its state setters no
\* longer act; the insert it sent, its toast and its timer still happen.
DeadSubmits(bag) ==
    LET S == {[r EXCEPT !.dead = TRUE] : r \in DOMAIN bag}
    IN  [d \in S |-> CopiesIn([d EXCEPT !.dead = FALSE], bag) + CopiesIn(d, bag)]

CartUnmount ==
    /\ cart_catalogueId' = ""
    /\ cart_selectedPages' = <<>>
    /\ cart_customerInfo' = emptyCustomerInfo
    /\ cart_isSubmitting' = FALSE
    /\ cart_showSuccess' = FALSE
    /\ cart_submits' = DeadSubmits(cart_submits)

\* The cart form is shown: not the success screen.
CartFormShown == route = "cart" /\ ~cart_showSuccess

\* removeItem(pageNumber): the X of a list row (disabled while submitting)
CartRemoveItem(p) ==
    /\ CartFormShown
    /\ ~cart_isSubmitting
    /\ has(cart_selectedPages, p)
    /\ cart_selectedPages' = SelectSeq(cart_selectedPages, LAMBDA x : x # p)
    /\ toast' = "none"
    /\ UNCHANGED <<shopFrame, orders, route, pvVars, cart_catalogueId, cart_customerInfo,
                   cart_isSubmitting, cart_showSuccess, cart_submits, cart_timers>>

\* clearCart: the Clear button of the header (shown for a non-empty cart)
CartClearCart ==
    /\ CartFormShown
    /\ Len(cart_selectedPages) > 0
    /\ cart_selectedPages' = <<>>
    /\ toast' = "none"
    /\ UNCHANGED <<shopFrame, orders, route, pvVars, cart_catalogueId, cart_customerInfo,
                   cart_isSubmitting, cart_showSuccess, cart_submits, cart_timers>>

\* onChange of an input (shown for a non-empty cart, disabled while
\* submitting)
CartSetCustomerInfo(field, value) ==
    /\ CartFormShown
    /\ Len(cart_selectedPages) > 0
    /\ ~cart_isSubmitting
    /\ cart_customerInfo[field] # value
    /\ cart_customerInfo' = [cart_customerInfo EXCEPT ![field] = value]
    /\ toast' = "none"
    /\ UNCHANGED <<shopFrame, orders, route, pvVars, cart_catalogueId, cart_selectedPages,
                   cart_isSubmitting, cart_showSuccess, cart_submits, cart_timers>>

\* handleSubmitOrder is called (button shown for a non-empty cart, disabled
\* while submitting): the guards toast and return; otherwise isSubmitting is
\* set and the insert is sent with selectedPages.sort((a, b) => a - b).
CartHandleSubmitOrder ==
    /\ CartFormShown
    /\ Len(cart_selectedPages) > 0
    /\ ~cart_isSubmitting
    /\ IF \/ selectionIsEmpty(cart_selectedPages)
          \/ requiredFieldsMissing(cart_customerInfo)
          \/ cart_catalogueId = ""
       THEN /\ toast' = "error"
            /\ UNCHANGED <<cart_isSubmitting, cart_submits, cart_selectedPages>>
       ELSE /\ Len(orders) + BagCardinality(cart_submits) < MaxOrders
            /\ cart_isSubmitting' = TRUE
            /\ cart_selectedPages' = sortAscending(cart_selectedPages)
            /\ cart_submits' = Add(cart_submits,
                 [stage |-> "insert", dead |-> FALSE,
                  row |-> OrderRow(cart_catalogueId, cart_customerInfo,
                                   sortAscending(cart_selectedPages))])
            /\ toast' = "none"
    /\ UNCHANGED <<shopFrame, orders, route, pvVars, cart_catalogueId, cart_customerInfo,
                   cart_showSuccess, cart_timers>>

\* The orders insert settles: the row is stored and the notification is
\* invoked, or the error is thrown to the catch block (toast, isSubmitting off).
CartInsertDone(r, ok) ==
    /\ BagIn(r, cart_submits)
    /\ r.stage = "insert"
    /\ IF ok
       THEN /\ orders' = Append(orders, r.row)
            /\ cart_submits' = Add(Del(cart_submits, r), [r EXCEPT !.stage = "notify"])
            /\ toast' = "none"
            /\ UNCHANGED cart_isSubmitting
       ELSE /\ orders' = orders
            /\ cart_submits' = Del(cart_submits, r)
            /\ toast' = "error"
            /\ cart_isSubmitting' = IF r.dead THEN cart_isSubmitting ELSE FALSE
    /\ UNCHANGED <<shopFrame, route, pvVars, cart_catalogueId, cart_selectedPages,
                   cart_customerInfo, cart_showSuccess, cart_timers>>

\* The notification call settles (a failure is only logged): setShowSuccess
\* and the 3 s redirect timer is armed.
CartNotifyDone(r, ok) ==
    /\ BagIn(r, cart_submits)
    /\ r.stage = "notify"
    /\ cart_submits' = Del(cart_submits, r)
    /\ cart_showSuccess' = IF r.dead THEN cart_showSuccess ELSE TRUE
    /\ cart_timers' = cart_timers + 1
    /\ toast' = "none"
    /\ UNCHANGED <<shopFrame, orders, route, pvVars, cart_catalogueId, cart_selectedPages,
                   cart_customerInfo, cart_isSubmitting>>

\* The redirect timer fires: navigate('/'), whatever page is mounted by then.
CartRedirect ==
    /\ cart_timers > 0
    /\ cart_timers' = cart_timers - 1
    /\ route' = "home"
    /\ IF route = "cart" THEN CartUnmount
       ELSE UNCHANGED <<cart_catalogueId, cart_selectedPages, cart_customerInfo,
                        cart_isSubmitting, cart_showSuccess, cart_submits>>
    /\ IF route = "preview"
       THEN /\ PvFresh
            /\ pv_loads' = Unmounted(pv_loads)
            /\ pv_mores' = EmptyBag
            /\ pv_switches' = 0
            /\ UNCHANGED pv_catalogueId
       ELSE UNCHANGED pvVars
    /\ toast' = "none"
    /\ UNCHANGED <<shopFrame, orders>>

\* navigate('/'): "Browse Catalogues" of the empty cart, "Continue Shopping"
\* (disabled while submitting).
CartNavigateHome ==
    /\ CartFormShown
    /\ Len(cart_selectedPages) = 0 \/ ~cart_isSubmitting
    /\ route' = "home"
    /\ CartUnmount
    /\ toast' = "none"
    /\ UNCHANGED <<shopFrame, orders, pvVars, cart_timers>>

\* navigate(-1): back to the preview page the cart was opened from, which
\* mounts afresh and loads its catalogue.
CartNavigateBack ==
    /\ CartFormShown
    /\ Inflight < MaxInflight
    /\ route' = "preview"
    /\ pv_catalogueId' = cart_catalogueId
    /\ pv_catalogue' = Null
    /\ pv_pdfPages' = <<>>
    /\ pv_selectedItems' = <<>>
    /\ pv_pdfDoc' = Null
    /\ pv_isLoading' = TRUE
    /\ pv_loads' = Add(pv_loads, NewLoad(cart_catalogueId))
    /\ pv_mores' = pv_mores
    /\ pv_switches' = 0
    /\ CartUnmount
    /\ toast' = "none"
    /\ UNCHANGED <<shopFrame, orders, cart_timers>>

(* ----------------------------- CatalogueApp ---------------------------- *)
\* what the CatalogueApp operations leave alone (orders aside)
appOthers == <<catalogues, route, pvVars, isMobile, cartVars, exVars, cardVars, more_last,
               ex_made, staffVars>>
appFrame == <<appOthers, notify_last>>

\* loadCatalogues() settles: setCatalogues(data) or console.error.
AppLoadCataloguesDone(ok) ==
    /\ app_listLoads > 0
    /\ app_listLoads' = app_listLoads - 1
    /\ app_catalogues' = IF ok THEN DOMAIN catalogues ELSE app_catalogues
    /\ toast' = "none"
    /\ UNCHANGED <<appFrame, orders, app_selectedCatalogue, app_pdfPages, app_isLoading,
                   app_selectedItems, app_currentView, app_customerInfo, app_isSubmitting,
                   app_showSuccess, app_isAdmin, app_loads, app_submits, app_timers, sel_last>>

\* A card's "Browse Catalogue" is clicked on the home view: loadCatalogue(c)
\* sets isLoading and selectedCatalogue and starts fetching.
AppLoadCatalogue(c) ==
    /\ app_currentView = "home"
    /\ c \in app_catalogues
    /\ BagCardinality(app_loads) < MaxInflight
    /\ app_isLoading' = TRUE
    /\ app_selectedCatalogue' = c
    /\ app_loads' = Add(app_loads, c)
    /\ toast' = "none"
    /\ UNCHANGED <<appFrame, orders, app_catalogues, app_pdfPages,
                   app_selectedItems, app_currentView, app_customerInfo, app_isSubmitting,
                   app_showSuccess, app_isAdmin, app_listLoads, app_submits, app_timers, sel_last>>

\* loadCatalogue(c): every page has rendered -> setPdfPages, setCurrentView;
\* a throw at any await -> toast; finally setIsLoading(false).
AppLoadCatalogueDone(c, ok) ==
    /\ BagIn(c, app_loads)
    /\ app_loads' = Del(app_loads, c)
    /\ app_isLoading' = FALSE
    /\ IF ok
       THEN /\ app_pdfPages' = renderPages(c, 1, numPages(c))
            /\ app_currentView' = "catalogue"
            /\ toast' = "none"
       ELSE /\ toast' = "error"
            /\ UNCHANGED <<app_pdfPages, app_currentView>>
    /\ UNCHANGED <<appFrame, orders, app_catalogues, app_selectedCatalogue,
                   app_selectedItems, app_customerInfo, app_isSubmitting,
                   app_showSuccess, app_isAdmin, app_listLoads, app_submits, app_timers, sel_last>>

\* The page tiles of the catalogue view (shown when !isLoading) and the remove
\* buttons of the cart list (disabled while submitting).
ToggleShown(p) ==
    \/ /\ app_currentView = "catalogue"
       /\ ~app_isLoading
       /\ \E k \in DOMAIN app_pdfPages : app_pdfPages[k].pageNumber = p
    \/ /\ app_currentView = "cart"
       /\ ~app_showSuccess
       /\ ~app_isSubmitting
       /\ has(app_selectedItems, p)

AppToggleItemSelection(p) ==
    /\ ToggleShown(p)
    /\ has(app_selectedItems, p) \/ Len(app_selectedItems) < MaxSel
    /\ app_selectedItems' = toggleItemSelection(app_selectedItems, p)
    /\ toast' = "none"
    /\ UNCHANGED <<appFrame, orders, app_catalogues, app_selectedCatalogue, app_pdfPages,
                   app_isLoading, app_currentView, app_customerInfo, app_isSubmitting,
                   app_showSuccess, app_isAdmin, app_listLoads, app_loads, app_submits,
                   app_timers>>

\* setCurrentView(v) from a button of the current view
AppSetCurrentView(v) ==
    /\ \/ v = "cart" /\ app_currentView = "catalogue"
       \/ v = "catalogue" /\ app_currentView = "cart" /\ ~app_showSuccess /\ ~app_isSubmitting
       \/ v = "admin-login" /\ app_currentView = "home"
    /\ app_currentView' = v
    /\ toast' = "none"
    /\ UNCHANGED <<appFrame, orders, app_catalogues, app_selectedCatalogue, app_pdfPages,
                   app_isLoading, app_selectedItems, app_customerInfo, app_isSubmitting,
                   app_showSuccess, app_isAdmin, app_listLoads, app_loads, app_submits,
                   app_timers, sel_last>>

\* onChange of an input of the cart form (disabled while submitting)
AppSetCustomerInfo(field, value) ==
    /\ app_currentView = "cart"
    /\ ~app_showSuccess
    /\ ~app_isSubmitting
    /\ app_customerInfo[field] # value
    /\ app_customerInfo' = [app_customerInfo EXCEPT ![field] = value]
    /\ toast' = "none"
    /\ UNCHANGED <<appFrame, orders, app_catalogues, app_selectedCatalogue, app_pdfPages,
                   app_isLoading, app_selectedItems, app_currentView, app_isSubmitting,
                   app_showSuccess, app_isAdmin, app_listLoads, app_loads, app_submits,
                   app_timers, sel_last>>

\* The calls of handleSubmitOrder in flight whose cart has since been emptied
\* by resetApp or by the auto-reset. The mark is bookkeeping of the model: the
\* code keeps no such mark and treats every call alike.
SupersededSubmits(bag) ==
    LET S == {[r EXCEPT !.old = TRUE] : r \in DOMAIN bag}
    IN  [d \in S |-> CopiesIn([d EXCEPT !.old = FALSE], bag) + CopiesIn(d, bag)]

\* handleSubmitOrder is called (cart view, button enabled): the three guards
\* toast and return; otherwise isSubmitting is set and the insert is sent with
\* the catalogue, the customer fields and the sorted selection of this render.
\* At most cap orders are stored or in flight.
AppHandleSubmitOrderUpTo(cap) ==
    /\ app_currentView = "cart"
    /\ ~app_showSuccess
    /\ ~app_isSubmitting
    /\ IF \/ selectionIsEmpty(app_selectedItems)
          \/ requiredFieldsMissing(app_customerInfo)
          \/ app_selectedCatalogue = Null
       THEN /\ toast' = "error"
            /\ UNCHANGED <<app_isSubmitting, app_submits>>
       ELSE /\ Len(orders) + BagCardinality(app_submits) < cap
            /\ app_isSubmitting' = TRUE
            /\ app_submits' = Add(app_submits,
                 [stage |-> "insert", old |-> FALSE,
                  row |-> OrderRow(app_selectedCatalogue, app_customerInfo,
                                   sortAscending(app_selectedItems))])
            /\ toast' = "none"
    /\ UNCHANGED <<appFrame, orders, app_catalogues, app_selectedCatalogue, app_pdfPages,
                   app_isLoading, app_selectedItems, app_currentView, app_customerInfo,
                   app_showSuccess, app_isAdmin, app_listLoads, app_loads, app_timers,
                   sel_last>>

AppHandleSubmitOrder == AppHandleSubmitOrderUpTo(MaxOrders)

\* A handleSubmitOrder whose catch block does not run setIsSubmitting(false):
\* after a failed insert the form stays disabled.
AppInsertDoneStuck(r, ok) ==
    /\ BagIn(r, app_submits)
    /\ r.stage = "insert"
    /\ IF ok
       THEN /\ orders' = Append(orders, r.row)
            /\ app_submits' = Add(Del(app_submits, r), [r EXCEPT !.stage = "notify"])
            /\ toast' = "none"
       ELSE /\ orders' = orders
            /\ app_submits' = Del(app_submits, r)
            /\ toast' = "error"
    /\ UNCHANGED <<appFrame, app_catalogues, app_selectedCatalogue, app_pdfPages,
                   app_isLoading, app_selectedItems, app_currentView, app_customerInfo,
                   app_isSubmitting, app_showSuccess, app_isAdmin, app_listLoads,
                   app_loads, app_timers, sel_last>>

\* The orders insert settles: the row is stored and the notification is
\* invoked, or the error is thrown to the catch block (toast, isSubmitting off).
AppInsertDone(r, ok) ==
    /\ BagIn(r, app_submits)
    /\ r.stage = "insert"
    /\ IF ok
       THEN /\ orders' = Append(orders, r.row)
            /\ app_submits' = Add(Del(app_submits, r), [r EXCEPT !.stage = "notify"])
            /\ toast' = "none"
            /\ UNCHANGED app_isSubmitting
       ELSE /\ orders' = orders
            /\ app_submits' = Del(app_submits, r)
            /\ toast' = "error"
            /\ app_isSubmitting' = FALSE
    /\ UNCHANGED <<appFrame, app_catalogues, app_selectedCatalogue, app_pdfPages,
                   app_isLoading, app_selectedItems, app_currentView, app_customerInfo,
                   app_showSuccess, app_isAdmin, app_listLoads, app_loads, app_timers,
                   sel_last>>

\* A handleSubmitOrder whose notification call is not wrapped in its own
\* try/catch: a failure reaches the outer catch (toast, isSubmitting off).
AppNotifyDoneUncaught(r, ok) ==
    /\ BagIn(r, app_submits)
    /\ r.stage = "notify"
    /\ app_submits' = Del(app_submits, r)
    /\ app_showSuccess' = IF ok THEN TRUE ELSE app_showSuccess
    /\ app_isSubmitting' = IF ok THEN app_isSubmitting ELSE FALSE
    /\ app_timers' = IF ok THEN app_timers + 1 ELSE app_timers
    /\ toast' = IF ok THEN "none" ELSE "error"
    /\ UNCHANGED <<appOthers, orders, app_catalogues, app_selectedCatalogue, app_pdfPages,
                   app_isLoading, app_selectedItems, app_currentView, app_customerInfo,
                   app_isAdmin, app_listLoads, app_loads, sel_last>>

\* The notification call settles (a failure is only logged): setShowSuccess
\* and the 3 s auto-reset timer is armed.
AppNotifyDone(r, ok) ==
    /\ BagIn(r, app_submits)
    /\ r.stage = "notify"
    /\ app_submits' = Del(app_submits, r)
    /\ app_showSuccess' = TRUE
    /\ app_timers' = app_timers + 1
    /\ toast' = "none"
    /\ UNCHANGED <<appOthers, orders, app_catalogues, app_selectedCatalogue, app_pdfPages,
                   app_isLoading, app_selectedItems, app_currentView, app_customerInfo,
                   app_isSubmitting, app_isAdmin, app_listLoads, app_loads, sel_last>>

\* The auto-reset timer fires.
AppAutoReset ==
    /\ app_timers > 0
    /\ app_timers' = app_timers - 1
    /\ app_selectedItems' = <<>>
    /\ app_customerInfo' = emptyCustomerInfo
    /\ app_showSuccess' = FALSE
    /\ app_currentView' = "home"
    /\ app_submits' = SupersededSubmits(app_submits)
    /\ toast' = "none"
    /\ UNCHANGED <<appFrame, orders, app_catalogues, app_selectedCatalogue, app_pdfPages,
                   app_isLoading, app_isSubmitting, app_isAdmin, app_listLoads, app_loads,
                   sel_last>>

\* resetApp: the X button of the catalogue view, "Start Over" of the cart view
\* (disabled while submitting).
AppResetApp ==
    /\ \/ app_currentView = "catalogue"
       \/ app_currentView = "cart" /\ ~app_showSuccess /\ ~app_isSubmitting
    /\ app_selectedCatalogue' = Null
    /\ app_pdfPages' = <<>>
    /\ app_selectedItems' = <<>>
    /\ app_currentView' = "home"
    /\ app_customerInfo' = emptyCustomerInfo
    /\ app_isSubmitting' = FALSE
    /\ app_showSuccess' = FALSE
    /\ app_submits' = SupersededSubmits(app_submits)
    /\ toast' = "none"
    /\ UNCHANGED <<appFrame, orders, app_catalogues, app_isLoading, app_isAdmin,
                   app_listLoads, app_loads, app_timers, sel_last>>

\* AdminLogin's onLogin
AppHandleAdminLogin ==
    /\ app_currentView = "admin-login"
    /\ app_isAdmin' = TRUE
    /\ app_currentView' = "admin"
    /\ toast' = "none"
    /\ UNCHANGED <<appFrame, orders, app_catalogues, app_selectedCatalogue, app_pdfPages,
                   app_isLoading, app_selectedItems, app_customerInfo, app_isSubmitting,
                   app_showSuccess, app_listLoads, app_loads, app_submits, app_timers,
                   sel_last>>

\* AdminPanel's onLogout: back home, and the catalogue list is loaded again.
AppHandleAdminLogout ==
    /\ app_currentView = "admin"
    /\ app_listLoads < MaxInflight
    /\ app_isAdmin' = FALSE
    /\ app_currentView' = "home"
    /\ app_listLoads' = app_listLoads + 1
    /\ toast' = "none"
    /\ UNCHANGED <<appFrame, orders, app_catalogues, app_selectedCatalogue, app_pdfPages,
                   app_isLoading, app_selectedItems, app_customerInfo, app_isSubmitting,
                   app_showSuccess, app_loads, app_submits, app_timers, sel_last>>

(* ---------------------- AdminPanel.downloadOrderPDF --------------------- *)
\* what the AdminPanel and CatalogueCard operations leave alone
sideOthers == <<catalogues, orders, route, pvVars, isMobile, cartVars, appVars, more_last,
                notify_last, staffVars>>
sideFrame == <<sideOthers, ex_made>>

\* order.selected_pages.map(pageNum => pageNum - 1)
\* (Skew: the variant without the shift to 0-based, for sensitivity runs)
pageIndicesSkew(selected_pages) == selected_pages
pageIndices(selected_pages) ==
    [k \in DOMAIN selected_pages |-> selected_pages[k] - 1]

\* newPdf.copyPages(originalPdf, pageIndices) throws when an index names no
\* page of the source; otherwise it yields the source pages at the given
\* 0-based indices, in the order given.
copyPagesThrows(src, indices) ==
    \E k \in DOMAIN indices : indices[k] < 0 \/ indices[k] >= Len(src)
copyPages(src, indices) == [k \in DOMAIN indices |-> src[indices[k] + 1]]

\* downloadOrderPDF(order) is called: catalogues.find(...); when the catalogue
\* is not in the panel's list it toasts and returns, else it starts the fetch.
DownloadOrderPDF(o) ==
    /\ o \in DOMAIN orders
    /\ BagCardinality(ex_calls) < MaxInflight
    /\ IF orders[o].catalogue_id \in admin_catalogues
       THEN /\ ex_calls' = Add(ex_calls, o)
            /\ toast' = "none"
       ELSE /\ ex_calls' = ex_calls
            /\ toast' = "error"
    /\ UNCHANGED <<sideFrame, cardVars, admin_catalogues, ex_file>>

\* A downloadOrderPDF that writes the pages it has not extracted back to the
\* order: each run uses up the first page of the list.
DownloadOrderPDFDoneConsuming(o, ok) ==
    /\ BagIn(o, ex_calls)
    /\ ex_calls' = Del(ex_calls, o)
    /\ LET originalPdf == srcPages(orders[o].catalogue_id)
           indices == pageIndices(orders[o].selected_pages)
       IN  IF ok /\ ~copyPagesThrows(originalPdf, indices)
           THEN /\ ex_file' = <<[order |-> o, pages |-> copyPages(originalPdf, indices)]>>
                /\ orders' = [orders EXCEPT ![o].selected_pages =
                                SubSeq(@, 2, Len(@))]
                /\ toast' = "success"
           ELSE /\ ex_file' = ex_file
                /\ orders' = orders
                /\ toast' = "error"
    /\ UNCHANGED <<catalogues, route, pvVars, isMobile, cartVars, appVars, more_last,
                   notify_last, staffVars, cardVars, admin_catalogues>>

\* A downloadOrderPDF that drops the page numbers naming no page of the source
\* and builds the file from the rest.
DownloadOrderPDFDoneLenient(o, ok) ==
    /\ BagIn(o, ex_calls)
    /\ ex_calls' = Del(ex_calls, o)
    /\ LET originalPdf == srcPages(orders[o].catalogue_id)
           indices == SelectSeq(pageIndices(orders[o].selected_pages),
                                LAMBDA i : i >= 0 /\ i < Len(originalPdf))
       IN  IF ok
           THEN /\ ex_file' = <<[order |-> o, pages |-> copyPages(originalPdf, indices)]>>
                /\ toast' = "success"
           ELSE /\ ex_file' = ex_file
                /\ toast' = "error"
    /\ UNCHANGED <<sideOthers, cardVars, admin_catalogues>>

\* The fetch and PDFDocument.load settle; then copyPages, addPage, save and the
\* download run without a further await. Any throw reaches the catch block.
DownloadOrderPDFDone(o, ok) ==
    /\ BagIn(o, ex_calls)
    /\ ex_calls' = Del(ex_calls, o)
    /\ LET originalPdf == srcPages(orders[o].catalogue_id)
           indices == pageIndices(orders[o].selected_pages)
       IN  IF ok /\ ~copyPagesThrows(originalPdf, indices)
           THEN /\ ex_file' = <<[order |-> o, pages |-> copyPages(originalPdf, indices)]>>
                /\ toast' = "success"
           ELSE /\ ex_file' = ex_file
                /\ toast' = "error"
    /\ UNCHANGED <<sideOthers, cardVars, admin_catalogues>>

(* ---------------------- CatalogueCard.loadCoverImage -------------------- *)
\* A selector that ignores the override (for sensitivity runs).
coverPageAlwaysFirst(cover_page) == 1

\* catalogue.cover_page || 1
coverPageOrDefault(cover_page) ==
    IF cover_page.k # "num" \/ cover_page.n = 0 THEN 1 ELSE cover_page.n

\* Math.min(pageNum, pdf.numPages)
coverPageArg(pageNum, n) == Min(pageNum, n)

\* pdf.getPage(n) rejects a page number outside 1..numPages
getPageRejects(n, doc) == n < 1 \/ n > numPages(doc)

\* The card mounts (or its catalogue prop changes): the effect calls
\* loadCoverImage(), which sets isLoadingCover and starts the fetch.
LoadCoverImage ==
    /\ card_catalogue # Null
    /\ BagCardinality(card_calls) < MaxInflight
    /\ card_isLoadingCover' = TRUE
    /\ card_calls' = Add(card_calls, card_catalogue)
    /\ toast' = "none"
    /\ UNCHANGED <<sideFrame, exVars, card_catalogue, card_coverImage, card_pageNum>>

\* The fetch and getDocument settle; the cover page is requested and rendered.
\* A failure anywhere is logged only; finally clears isLoadingCover.
LoadCoverImageDone(c, ok) ==
    /\ BagIn(c, card_calls)
    /\ card_calls' = Del(card_calls, c)
    /\ card_isLoadingCover' = FALSE
    /\ IF ok
       THEN LET n == coverPageArg(coverPageOrDefault(catalogues[c].cover_page), numPages(c))
            IN  /\ card_pageNum' = <<n>>
                /\ card_coverImage' = IF getPageRejects(n, c) THEN card_coverImage
                                      ELSE <<srcPages(c)[n]>>
       ELSE UNCHANGED <<card_pageNum, card_coverImage>>
    /\ toast' = "none"
    /\ UNCHANGED <<sideFrame, exVars, card_catalogue>>

PvInit ==
    /\ route = "home"
    /\ pv_catalogueId = Null
    /\ pv_catalogue = Null
    /\ pv_pdfPages = <<>>
    /\ pv_isLoading = FALSE
    /\ pv_selectedItems = <<>>
    /\ pv_pdfDoc = Null
    /\ pv_loads = EmptyBag
    /\ pv_mores = EmptyBag
    /\ pv_switches = 0
    /\ more_last = <<>>

\* CartPage is not mounted.
CartIdle ==
    /\ cart_catalogueId = ""
    /\ cart_selectedPages = <<>>
    /\ cart_customerInfo = emptyCustomerInfo
    /\ cart_isSubmitting = FALSE
    /\ cart_showSuccess = FALSE
    /\ cart_submits = EmptyBag
    /\ cart_timers = 0

\* CatalogueApp is not mounted.
AppIdle ==
    /\ app_catalogues = {}
    /\ app_selectedCatalogue = Null
    /\ app_pdfPages = <<>>
    /\ app_isLoading = FALSE
    /\ app_selectedItems = <<>>
    /\ app_currentView = "home"
    /\ app_customerInfo = emptyCustomerInfo
    /\ app_isSubmitting = FALSE
    /\ app_showSuccess = FALSE
    /\ app_isAdmin = FALSE
    /\ app_listLoads = 0
    /\ app_loads = EmptyBag
    /\ app_submits = EmptyBag
    /\ app_timers = 0
    /\ sel_last = <<>>
    /\ notify_last = <<>>

ExIdle ==
    /\ admin_catalogues = {}
    /\ ex_calls = EmptyBag
    /\ ex_file = <<>>
    /\ ex_made = <<>>

\* No staff panel is open.
OrdIdle ==
    /\ catalogue_names = [c \in CatIds |-> c]
    /\ orders_nextId = 1
    /\ db_calls = EmptyBag

\* No staff screen is open; nobody holds a role.
DashIdle ==
    /\ user_roles = [u \in UserIds |-> NoRow]
    /\ dash_view = "none"
    /\ dash_user = Null
    /\ dr_userRole = Null
    /\ dr_isLoading = TRUE
    /\ dr_calls = 0
    /\ dd_mounted = FALSE
    /\ dd_isLoading = TRUE
    /\ dd_jobs = FALSE
    /\ dd_calls = EmptyBag

\* No invoice is stored and none is being created.
InvIdle ==
    /\ invoices = {}
    /\ inv_calls = EmptyBag

StaffIdle == OrdIdle /\ DashIdle /\ InvIdle

CardIdle ==
    /\ card_catalogue = Null
    /\ card_coverImage = <<>>
    /\ card_isLoadingCover = FALSE
    /\ card_pageNum = <<>>
    /\ card_calls = EmptyBag

\* The lazy page loader: a 10-page and a 3-page catalogue are stored.
Init ==
    /\ catalogues = [c \in CatIds |->
                       CatalogueRow(IF c = "A" THEN LargeDocPages ELSE SmallDocPages, CoverNum(1))]
    /\ orders = <<>>
    /\ PvInit
    /\ CartIdle
    /\ isMobile \in BOOLEAN
    /\ AppIdle
    /\ ExIdle
    /\ CardIdle
    /\ StaffIdle
    /\ toast = "none"

Next ==
    \/ \E id \in CatIds : PvMount(id)
    \/ \E id \in CatIds : PvChangeCatalogueId(id)
    \/ \E r \in DOMAIN pv_loads, ok \in BOOLEAN : LoadCatalogueSelect(r, ok)
    \/ \E r \in DOMAIN pv_loads, ok \in BOOLEAN : LoadCatalogueFetch(r, ok)
    \/ \E r \in DOMAIN pv_loads, ok \in BOOLEAN : LoadCatalogueRender(r, ok)
    \/ \E ok \in BOOLEAN : LoadCatalogueDead(ok)
    \/ LoadMorePages
    \/ \E r \in DOMAIN pv_mores, ok \in BOOLEAN : LoadMoreDone(r, ok) /\ UNCHANGED more_last
    \/ PvNavigateHome

Spec == Init /\ [][Next]_vars

(* ------------------------ page-subset extraction ----------------------- *)
\* Page count of the documents stored for the extraction specification, and
\* the longest selected_pages list of its order.
ExtractDocPages == 3
ExtractMaxLen == 3

BoundedSeqs(S, n) == UNION {[1..k -> S] : k \in 0..n}

\* The orders table allows any INTEGER[] as selected_pages and anyone may
\* insert: one stored order with an arbitrary page list, the admin panel open.
InitExtract ==
    /\ catalogues = [c \in CatIds |-> CatalogueRow(ExtractDocPages, CoverNum(1))]
    /\ \E c \in CatIds, P \in BoundedSeqs(0..(ExtractDocPages + 1), ExtractMaxLen) :
          orders = <<OrderRow(c, [emptyCustomerInfo EXCEPT !.name = "x", !.email = "x",
                                                               !.phone = "x"], P)>>
    /\ PvInit
    /\ CartIdle
    /\ isMobile = FALSE
    /\ AppIdle
    /\ admin_catalogues \in {CatIds, {"A"}}
    /\ ex_calls = EmptyBag
    /\ ex_file = <<>>
    /\ ex_made = <<>>
    /\ CardIdle
    /\ StaffIdle
    /\ toast = "none"

\* A downloadOrderPDF call settles; a file it downloaded enters the history.
DownloadSettle(o, ok) ==
    /\ DownloadOrderPDFDone(o, ok)
    /\ ex_made' = IF toast' = "success"
                  THEN <<ex_file'[1]>> \o SubSeq(ex_made, 1, Min(1, Len(ex_made)))
                  ELSE ex_made

NextExtract ==
    \/ \E o \in DOMAIN orders : DownloadOrderPDF(o)
    \/ \E o \in DOMAIN orders, ok \in BOOLEAN : DownloadSettle(o, ok)

SpecExtract == InitExtract /\ [][NextExtract]_vars

(* ---------------------------- cover selector --------------------------- *)
\* Largest page count of a catalogue shown on a card, and how far a stored
\* cover_page lies below 0 or above the page count.
CoverMaxPages == 3
CoverSlack == 2

\* cover_page is an unconstrained integer column (DEFAULT 1, nullable); the
\* row object may also come without the field.
InitCover ==
    /\ \E n \in 1..CoverMaxPages,
          cp \in {CoverUndefined, CoverNull}
                 \cup {CoverNum(v) : v \in (0 - CoverSlack)..(CoverMaxPages + CoverSlack)} :
          catalogues = [c \in CatIds |-> CatalogueRow(n, cp)]
    /\ orders = <<>>
    /\ PvInit
    /\ CartIdle
    /\ isMobile = FALSE
    /\ AppIdle
    /\ ExIdle
    /\ card_catalogue \in CatIds
    /\ card_coverImage = <<>>
    /\ card_isLoadingCover = FALSE
    /\ card_pageNum = <<>>
    /\ card_calls = EmptyBag
    /\ StaffIdle
    /\ toast = "none"

NextCover ==
    \/ LoadCoverImage
    \/ \E c \in DOMAIN card_calls, ok \in BOOLEAN : LoadCoverImageDone(c, ok)

SpecCover == InitCover /\ [][NextCover]_vars

(* ------------------------------ CatalogueApp --------------------------- *)
\* Page counts of the two catalogues of the checkout specifications.
ShopLargePages == 2
ShopSmallPages == 1

\* CatalogueApp has mounted: its effect has called loadCatalogues().
InitApp ==
    /\ catalogues = [c \in CatIds |->
                       CatalogueRow(IF c = "A" THEN ShopLargePages ELSE ShopSmallPages,
                                    CoverNum(1))]
    /\ orders = <<>>
    /\ PvInit
    /\ CartIdle
    /\ isMobile = FALSE
    /\ app_catalogues = {}
    /\ app_selectedCatalogue = Null
    /\ app_pdfPages = <<>>
    /\ app_isLoading = FALSE
    /\ app_selectedItems = <<>>
    /\ app_currentView = "home"
    /\ app_customerInfo = emptyCustomerInfo
    /\ app_isSubmitting = FALSE
    /\ app_showSuccess = FALSE
    /\ app_isAdmin = FALSE
    /\ app_listLoads = 1
    /\ app_loads = EmptyBag
    /\ app_submits = EmptyBag
    /\ app_timers = 0
    /\ sel_last = <<>>
    /\ notify_last = <<>>
    /\ ExIdle
    /\ CardIdle
    /\ StaffIdle
    /\ toast = "none"

AllPages == 1..(LargeDocPages + 1)

NextApp ==
    \/ \E ok \in BOOLEAN : AppLoadCataloguesDone(ok)
    \/ \E c \in CatIds : AppLoadCatalogue(c)
    \/ \E c \in DOMAIN app_loads, ok \in BOOLEAN : AppLoadCatalogueDone(c, ok)
    \/ \E p \in AllPages : AppToggleItemSelection(p) /\ UNCHANGED sel_last
    \/ \E v \in {"cart", "catalogue", "admin-login"} : AppSetCurrentView(v)
    \/ \E f \in RequiredFields, x \in {"", "x"} : AppSetCustomerInfo(f, x)
    \/ AppHandleSubmitOrder
    \/ \E r \in DOMAIN app_submits, ok \in BOOLEAN : AppInsertDone(r, ok)
    \/ \E r \in DOMAIN app_submits, ok \in BOOLEAN : AppNotifyDone(r, ok) /\ UNCHANGED notify_last
    \/ AppAutoReset
    \/ AppResetApp
    \/ AppHandleAdminLogin
    \/ AppHandleAdminLogout

SpecApp == InitApp /\ [][NextApp]_vars

(* ------------------------- preview page and cart ----------------------- *)
\* The routed shop: nothing mounted yet, the two small catalogues stored.
InitCart ==
    /\ catalogues = [c \in CatIds |->
                       CatalogueRow(IF c = "A" THEN ShopLargePages ELSE ShopSmallPages,
                                    CoverNum(1))]
    /\ orders = <<>>
    /\ PvInit
    /\ CartIdle
    /\ isMobile = FALSE
    /\ AppIdle
    /\ ExIdle
    /\ CardIdle
    /\ StaffIdle
    /\ toast = "none"

NextCart ==
    \/ \E id \in CatIds : PvMount(id)
    \/ \E id \in CatIds : PvChangeCatalogueId(id)
    \/ \E r \in DOMAIN pv_loads, ok \in BOOLEAN : LoadCatalogueSelect(r, ok)
    \/ \E r \in DOMAIN pv_loads, ok \in BOOLEAN : LoadCatalogueFetch(r, ok)
    \/ \E r \in DOMAIN pv_loads, ok \in BOOLEAN : LoadCatalogueRender(r, ok)
    \/ \E ok \in BOOLEAN : LoadCatalogueDead(ok)
    \/ \E p \in AllPages : PvToggleItemSelection(p)
    \/ PvNavigateToCart
    \/ PvNavigateHome
    \/ \E p \in AllPages : CartRemoveItem(p)
    \/ CartClearCart
    \/ \E f \in RequiredFields, x \in {"", "x"} : CartSetCustomerInfo(f, x)
    \/ CartHandleSubmitOrder
    \/ \E r \in DOMAIN cart_submits, ok \in BOOLEAN : CartInsertDone(r, ok)
    \/ \E r \in DOMAIN cart_submits, ok \in BOOLEAN : CartNotifyDone(r, ok)
    \/ CartRedirect
    \/ CartNavigateHome
    \/ CartNavigateBack

SpecCart == InitCart /\ [][NextCart]_vars

(* ------------------------------- selection ----------------------------- *)
\* Page count of the catalogue open in the selection specification.
SelDocPages == 9

\* CatalogueApp shows a loaded catalogue, nothing selected yet.
InitSel ==
    /\ catalogues = [c \in CatIds |-> CatalogueRow(SelDocPages, CoverNum(1))]
    /\ orders = <<>>
    /\ PvInit
    /\ CartIdle
    /\ isMobile = FALSE
    /\ app_catalogues = CatIds
    /\ app_selectedCatalogue \in CatIds
    /\ app_pdfPages = renderPages(app_selectedCatalogue, 1, SelDocPages)
    /\ app_isLoading = FALSE
    /\ app_selectedItems = <<>>
    /\ app_currentView = "catalogue"
    /\ app_customerInfo = emptyCustomerInfo
    /\ app_isSubmitting = FALSE
    /\ app_showSuccess = FALSE
    /\ app_isAdmin = FALSE
    /\ app_listLoads = 0
    /\ app_loads = EmptyBag
    /\ app_submits = EmptyBag
    /\ app_timers = 0
    /\ sel_last = <<>>
    /\ notify_last = <<>>
    /\ ExIdle
    /\ CardIdle
    /\ StaffIdle
    /\ toast = "none"

\* toggleItemSelection(p), remembering the page and the membership before it
SelToggle(p) ==
    /\ AppToggleItemSelection(p)
    /\ sel_last' = <<[page |-> p, before |-> Members(app_selectedItems)]>>
                    \o SubSeq(sel_last, 1, Min(1, Len(sel_last)))

NextSel ==
    \/ \E p \in AllPages : SelToggle(p)
    \/ \E v \in {"cart", "catalogue"} : AppSetCurrentView(v)

SpecSel == InitSel /\ [][NextSel]_vars

(* ------------------------ batches of one page view --------------------- *)
\* One visit of the preview page: the initial load and the load-more
\* requests made on it, each of which may fail.
NextBatch ==
    \/ \E id \in CatIds : PvMount(id)
    \/ \E r \in DOMAIN pv_loads, ok \in BOOLEAN : LoadCatalogueSelect(r, ok)
    \/ \E r \in DOMAIN pv_loads, ok \in BOOLEAN : LoadCatalogueFetch(r, ok)
    \/ \E r \in DOMAIN pv_loads, ok \in BOOLEAN : LoadCatalogueRender(r, ok)
    \/ LoadMorePages
    \/ \E r \in DOMAIN pv_mores, ok \in BOOLEAN : LoadMoreDone(r, ok) /\ UNCHANGED more_last

SpecBatch == Init /\ [][NextBatch]_vars


(* -------------------- repeated submissions, CatalogueApp --------------- *)
\* Orders stored or in flight in the specification of repeated submissions.
MaxResubmits == 2

\* CatalogueApp on the home view with the catalogue list loaded.
InitResubmit ==
    /\ catalogues = [c \in CatIds |->
                       CatalogueRow(IF c = "A" THEN ShopLargePages ELSE ShopSmallPages,
                                    CoverNum(1))]
    /\ orders = <<>>
    /\ PvInit
    /\ CartIdle
    /\ isMobile = FALSE
    /\ app_catalogues = CatIds
    /\ app_selectedCatalogue = Null
    /\ app_pdfPages = <<>>
    /\ app_isLoading = FALSE
    /\ app_selectedItems = <<>>
    /\ app_currentView = "home"
    /\ app_customerInfo = emptyCustomerInfo
    /\ app_isSubmitting = FALSE
    /\ app_showSuccess = FALSE
    /\ app_isAdmin = FALSE
    /\ app_listLoads = 0
    /\ app_loads = EmptyBag
    /\ app_submits = EmptyBag
    /\ app_timers = 0
    /\ sel_last = <<>>
    /\ notify_last = <<>>
    /\ ExIdle
    /\ CardIdle
    /\ StaffIdle
    /\ toast = "none"

NextResubmit ==
    \/ \E c \in CatIds : AppLoadCatalogue(c)
    \/ \E c \in DOMAIN app_loads, ok \in BOOLEAN : AppLoadCatalogueDone(c, ok)
    \/ \E p \in AllPages : AppToggleItemSelection(p) /\ UNCHANGED sel_last
    \/ \E v \in {"cart", "catalogue"} : AppSetCurrentView(v)
    \/ \E f \in RequiredFields : AppSetCustomerInfo(f, "x")
    \/ AppHandleSubmitOrderUpTo(MaxResubmits)
    \/ \E r \in DOMAIN app_submits, ok \in BOOLEAN : AppInsertDone(r, ok)
    \/ \E r \in DOMAIN app_submits, ok \in BOOLEAN : AppNotifyDone(r, ok) /\ UNCHANGED notify_last
    \/ AppAutoReset
    \/ AppResetApp

SpecResubmit == InitResubmit /\ [][NextResubmit]_vars


(* --------------------------- load-more retries ------------------------- *)
\* The preview page after a successful initial load of a stored catalogue.
InitMore ==
    /\ catalogues = [c \in CatIds |->
                       CatalogueRow(IF c = "A" THEN LargeDocPages ELSE SmallDocPages, CoverNum(1))]
    /\ orders = <<>>
    /\ isMobile \in BOOLEAN
    /\ \E c \in CatIds :
          /\ pv_catalogueId = c
          /\ pv_catalogue = c
          /\ pv_pdfDoc = c
          /\ pv_pdfPages = renderPages(c, 1, initialPages(numPages(c), isMobile))
    /\ route = "preview"
    /\ pv_isLoading = FALSE
    /\ pv_selectedItems = <<>>
    /\ pv_loads = EmptyBag
    /\ pv_mores = EmptyBag
    /\ pv_switches = 0
    /\ more_last = <<>>
    /\ CartIdle
    /\ AppIdle
    /\ ExIdle
    /\ CardIdle
    /\ StaffIdle
    /\ toast = "none"

\* A loadMorePages call settles; the history keeps the call, its outcome, the
\* pages before it settled and the number of other calls then in flight.
MoreSettle(r, ok) ==
    /\ LoadMoreDone(r, ok)
    /\ more_last' = <<[call |-> r, ok |-> ok, before |-> pv_pdfPages,
                       others |-> BagCardinality(pv_mores) - 1]>>
                    \o SubSeq(more_last, 1, Min(1, Len(more_last)))

NextMore ==
    \/ LoadMorePages
    \/ \E r \in DOMAIN pv_mores, ok \in BOOLEAN : MoreSettle(r, ok)

SpecMore == InitMore /\ [][NextMore]_vars

(* ------------------------ CatalogueApp order form ---------------------- *)
\* CatalogueApp showing a loaded catalogue, no load in flight.
InitAppForm ==
    /\ catalogues = [c \in CatIds |->
                       CatalogueRow(IF c = "A" THEN ShopLargePages ELSE ShopSmallPages,
                                    CoverNum(1))]
    /\ orders = <<>>
    /\ PvInit
    /\ CartIdle
    /\ isMobile = FALSE
    /\ app_catalogues = CatIds
    /\ app_selectedCatalogue \in CatIds
    /\ app_pdfPages = renderPages(app_selectedCatalogue, 1, numPages(app_selectedCatalogue))
    /\ app_isLoading = FALSE
    /\ app_selectedItems = <<>>
    /\ app_currentView = "catalogue"
    /\ app_customerInfo = emptyCustomerInfo
    /\ app_isSubmitting = FALSE
    /\ app_showSuccess = FALSE
    /\ app_isAdmin = FALSE
    /\ app_listLoads = 0
    /\ app_loads = EmptyBag
    /\ app_submits = EmptyBag
    /\ app_timers = 0
    /\ sel_last = <<>>
    /\ notify_last = <<>>
    /\ ExIdle
    /\ CardIdle
    /\ StaffIdle
    /\ toast = "none"

\* The notification call settles, remembering its outcome.
NotifySettle(r, ok) ==
    /\ AppNotifyDone(r, ok)
    /\ notify_last' = <<ok>>

NextAppForm ==
    \/ \E p \in AllPages : AppToggleItemSelection(p) /\ UNCHANGED sel_last
    \/ \E v \in {"cart", "catalogue"} : AppSetCurrentView(v)
    \/ \E f \in RequiredFields \cup OptionalFields, x \in {"", "x"} : AppSetCustomerInfo(f, x)
    \/ AppHandleSubmitOrder
    \/ \E r \in DOMAIN app_submits, ok \in BOOLEAN : AppInsertDone(r, ok)
    \/ \E r \in DOMAIN app_submits, ok \in BOOLEAN : NotifySettle(r, ok)
    \/ AppAutoReset
    \/ AppResetApp

SpecAppForm == InitAppForm /\ [][NextAppForm]_vars

(* -------------------------- CartPage order form ------------------------ *)
\* The non-empty ascending page lists a preview page can hand to the cart.
HandedOver(doc) ==
    {sortAscending(s) : s \in {t \in BoundedSeqs(1..numPages(doc), MaxSel) :
                                  t # <<>> /\ Cardinality(Members(t)) = Len(t)}}

\* CartPage mounted with the selection of a preview page.
InitCartForm ==
    /\ catalogues = [c \in CatIds |->
                       CatalogueRow(IF c = "A" THEN ShopLargePages ELSE ShopSmallPages,
                                    CoverNum(1))]
    /\ orders = <<>>
    /\ route = "cart"
    /\ pv_catalogueId = Null
    /\ pv_catalogue = Null
    /\ pv_pdfPages = <<>>
    /\ pv_isLoading = FALSE
    /\ pv_selectedItems = <<>>
    /\ pv_pdfDoc = Null
    /\ pv_loads = EmptyBag
    /\ pv_mores = EmptyBag
    /\ pv_switches = 0
    /\ more_last = <<>>
    /\ isMobile = FALSE
    /\ cart_catalogueId \in CatIds
    /\ cart_selectedPages \in HandedOver(cart_catalogueId)
    /\ cart_customerInfo = emptyCustomerInfo
    /\ cart_isSubmitting = FALSE
    /\ cart_showSuccess = FALSE
    /\ cart_submits = EmptyBag
    /\ cart_timers = 0
    /\ AppIdle
    /\ ExIdle
    /\ CardIdle
    /\ StaffIdle
    /\ toast = "none"

NextCartForm ==
    \/ \E p \in AllPages : CartRemoveItem(p)
    \/ CartClearCart
    \/ \E f \in RequiredFields \cup OptionalFields, x \in {"", "x"} : CartSetCustomerInfo(f, x)
    \/ CartHandleSubmitOrder
    \/ \E r \in DOMAIN cart_submits, ok \in BOOLEAN : CartInsertDone(r, ok)
    \/ \E r \in DOMAIN cart_submits, ok \in BOOLEAN : CartNotifyDone(r, ok)
    \/ CartRedirect
    \/ CartNavigateHome

SpecCartForm == InitCartForm /\ [][NextCartForm]_vars

(* ----------------------- order forms, both checkouts ------------------- *)
\* Either checkout with its form open: CatalogueApp showing a loaded
\* catalogue, or CartPage mounted with the selection of a preview page.
InitRetry == InitAppForm \/ InitCartForm

NextRetry == NextAppForm \/ NextCartForm

SpecRetry == InitRetry /\ [][NextRetry]_vars

(* ---------------- orders table: the operations that reach it ----------- *)
\* Order ids the stored table hands out, staff requests in flight at a time,
\* and the option values of the status select of the finance dashboard.
MaxOrderId == 2
MaxDbCalls == 1
StatusValues == {"pending", "processing", "completed", "cancelled"}

\* what the staff operations on orders and catalogues leave alone
customerVars == <<route, pvVars, isMobile, cartVars, appVars, exVars, cardVars, more_last,
                  notify_last, ex_made>>

\* a stored row: id DEFAULT gen_random_uuid() joined to the inserted columns
StoredOrder(id, row) == [id |-> id] @@ row

\* supabase.from('orders').insert({...}) of a checkout reaches the table.
CheckoutInsert(cat, pages) ==
    /\ cat \in DOMAIN catalogues
    /\ orders_nextId <= MaxOrderId
    /\ orders' = Append(orders,
                   StoredOrder(orders_nextId,
                               OrderRow(cat, [emptyCustomerInfo EXCEPT !.name = "x",
                                                 !.email = "x", !.phone = "x"], pages)))
    /\ orders_nextId' = orders_nextId + 1
    /\ toast' = "none"
    /\ UNCHANGED <<customerVars, dashVars, invVars, catalogues, catalogue_names, db_calls>>

\* A staff handler is called and sends its request.
DbCall(call) ==
    /\ BagCardinality(db_calls) < MaxDbCalls
    /\ db_calls' = Add(db_calls, call)
    /\ toast' = "none"
    /\ UNCHANGED <<customerVars, dashVars, invVars, catalogues, orders, catalogue_names, orders_nextId>>

\* updateOrderStatus(orderId, newStatus): the select of an order row
UpdateOrderStatus(id, newStatus) ==
    /\ \E k \in DOMAIN orders : orders[k].id = id /\ orders[k].status # newStatus
    /\ DbCall([op |-> "updateOrderStatus", order |-> id, cat |-> "", value |-> newStatus])

\* handleDeleteOrder(orderId), confirmed
HandleDeleteOrder(id) ==
    /\ \E k \in DOMAIN orders : orders[k].id = id
    /\ DbCall([op |-> "handleDeleteOrder", order |-> id, cat |-> "", value |-> ""])

\* handleDeleteCatalogue(id, fileUrl), confirmed
HandleDeleteCatalogue(c) ==
    /\ c \in DOMAIN catalogues
    /\ DbCall([op |-> "handleDeleteCatalogue", order |-> 0, cat |-> c, value |-> ""])

\* handleUpdateCatalogue with editingCatalogue = {id, name}
HandleUpdateCatalogue(c, name) ==
    /\ c \in DOMAIN catalogues
    /\ catalogue_names[c] # name
    /\ DbCall([op |-> "handleUpdateCatalogue", order |-> 0, cat |-> c, value |-> name])

\* .update({ status: newStatus }).eq('id', orderId) on the rows as they are
\* when the request arrives
updateStatusRows(rows, id, newStatus) ==
    [k \in DOMAIN rows |->
        IF rows[k].id = id THEN [rows[k] EXCEPT !.status = newStatus] ELSE rows[k]]

\* A rename that is carried into the catalogue_name column of the orders.
renameRowsCascading(rows, c, name) ==
    [k \in DOMAIN rows |->
        IF rows[k].catalogue_id = c THEN [rows[k] EXCEPT !.catalogue_name = name]
        ELSE rows[k]]

\* .from('catalogues').update({ name }).eq('id', id): the orders table is not
\* part of the statement
renameRows(rows, c, name) == rows

\* A staff request settles: on success the statement has run (a delete of a
\* catalogue takes the orders referencing it along, ON DELETE CASCADE), on an
\* error nothing is changed and the error toast is shown.
DbCallDone(call, ok) ==
    /\ BagIn(call, db_calls)
    /\ db_calls' = Del(db_calls, call)
    /\ toast' = IF ok THEN "success" ELSE "error"
    /\ IF ~ok
       THEN UNCHANGED <<orders, catalogues, catalogue_names>>
       ELSE CASE call.op = "updateOrderStatus" ->
                   /\ orders' = updateStatusRows(orders, call.order, call.value)
                   /\ UNCHANGED <<catalogues, catalogue_names>>
              [] call.op = "handleDeleteOrder" ->
                   /\ orders' = SelectSeq(orders, LAMBDA o : o.id # call.order)
                   /\ UNCHANGED <<catalogues, catalogue_names>>
              [] call.op = "handleDeleteCatalogue" ->
                   /\ orders' = SelectSeq(orders, LAMBDA o : o.catalogue_id # call.cat)
                   /\ catalogues' = [c \in DOMAIN catalogues \ {call.cat} |-> catalogues[c]]
                   /\ catalogue_names' =
                        [c \in DOMAIN catalogue_names \ {call.cat} |-> catalogue_names[c]]
              [] call.op = "handleUpdateCatalogue" ->
                   /\ orders' = renameRows(orders, call.cat, call.value)
                   /\ catalogue_names' =
                        IF call.cat \in DOMAIN catalogue_names
                        THEN [catalogue_names EXCEPT ![call.cat] = call.value]
                        ELSE catalogue_names
                   /\ UNCHANGED catalogues
    /\ UNCHANGED <<customerVars, dashVars, invVars, orders_nextId>>

\* Two catalogues and one stored order; the admin panel and the finance
\* dashboard are open, the shop takes orders.
InitOrders ==
    /\ catalogues = [c \in CatIds |-> CatalogueRow(ShopLargePages, CoverNum(1))]
    /\ catalogue_names = [c \in CatIds |-> c]
    /\ orders = <<StoredOrder(1, OrderRow("A", [emptyCustomerInfo EXCEPT !.name = "x",
                                                   !.email = "x", !.phone = "x"], <<1>>))>>
    /\ orders_nextId = 2
    /\ db_calls = EmptyBag
    /\ DashIdle
    /\ InvIdle
    /\ PvInit
    /\ CartIdle
    /\ isMobile = FALSE
    /\ AppIdle
    /\ ExIdle
    /\ card_catalogue = Null
    /\ card_coverImage = <<>>
    /\ card_isLoadingCover = FALSE
    /\ card_pageNum = <<>>
    /\ card_calls = EmptyBag
    /\ toast = "none"

NextOrders ==
    \/ \E c \in CatIds : CheckoutInsert(c, <<1, 2>>)
    \/ \E id \in 1..MaxOrderId, v \in StatusValues : UpdateOrderStatus(id, v)
    \/ \E id \in 1..MaxOrderId : HandleDeleteOrder(id)
    \/ \E c \in CatIds : HandleDeleteCatalogue(c)
    \/ \E c \in CatIds : HandleUpdateCatalogue(c, "N")
    \/ \E call \in DOMAIN db_calls, ok \in BOOLEAN : DbCallDone(call, ok)

SpecOrders == InitOrders /\ [][NextOrders]_vars

(* ------------------ DashboardRouter and DesignerDashboard -------------- *)
\* CREATE TYPE public.app_role AS ENUM (...)
Roles == {"admin", "manager", "designer", "finance"}

\* How a query can go wrong: not at all, with an error result, by throwing.
QueryFaults == {"no", "error", "throw"}

\* what the dashboard operations leave alone
dashOthers == <<catalogues, orders, customerVars, ordVars, invVars>>

\* /dashboard: DashboardRouter mounts for the signed-in user u; its effect
\* calls getUserRole(), which passes the user?.id guard, sets isLoading and
\* sends the user_roles query.
DashMountRouter(u) ==
    /\ dash_view = "none"
    /\ dash_view' = "router"
    /\ dash_user' = u
    /\ dr_userRole' = Null
    /\ dr_isLoading' = TRUE
    /\ dr_calls' = dr_calls + 1
    /\ toast' = "none"
    /\ UNCHANGED <<dashOthers, user_roles, dd_mounted, dd_isLoading, dd_jobs, dd_calls>>

\* /dashboard/designer: <DesignerDashboard user={null} />. isLoading starts
\* true; the effect calls loadAssignedJobs(), which returns at
\* if (!user?.id) return; before its try block.
DashOpenDesigner ==
    /\ dash_view = "none"
    /\ dash_view' = "designer"
    /\ dash_user' = Null
    /\ dd_mounted' = TRUE
    /\ dd_isLoading' = TRUE
    /\ dd_calls' = dd_calls
    /\ toast' = "none"
    /\ UNCHANGED <<dashOthers, user_roles, dr_userRole, dr_isLoading, dr_calls, dd_jobs>>

\* .from('user_roles').select('role').eq('user_id', id).single(): the role of
\* the row, an error result when there is no row or the query fails, or a throw.
roleQuery(u, fault) ==
    IF fault = "throw" THEN [kind |-> "throw", role |-> Null]
    ELSE IF fault = "error" \/ user_roles[u] = NoRow THEN [kind |-> "error", role |-> Null]
    ELSE [kind |-> "data", role |-> user_roles[u]]

\* The setUserRole of getUserRole: data.role, and 'admin' in the error branch
\* and in the catch block.
roleAfterQuery(res) == IF res.kind = "data" THEN res.role ELSE "admin"

\* The switch of DashboardRouter: what is rendered.
routerShows ==
    IF dr_isLoading THEN "loading"
    ELSE IF dr_userRole = Null THEN "no-role"
    ELSE dr_userRole

\* getUserRole settles: setUserRole, the toast of the catch block, and
\* setIsLoading(false) in finally. When the router then renders
\* <DesignerDashboard user={user} />, that component mounts and its effect
\* calls loadAssignedJobs(), which sets isLoading and queries the jobs.
GetUserRoleDone(fault) ==
    /\ dash_view = "router"
    /\ dr_calls > 0
    /\ dr_calls' = dr_calls - 1
    /\ dr_userRole' = roleAfterQuery(roleQuery(dash_user, fault))
    /\ dr_isLoading' = FALSE
    /\ toast' = IF roleQuery(dash_user, fault).kind = "throw" THEN "error" ELSE "none"
    /\ IF dr_userRole' = "designer" /\ ~dd_mounted
       THEN /\ dd_mounted' = TRUE
            /\ dd_isLoading' = TRUE
            /\ dd_calls' = Add(dd_calls, "jobs")
       ELSE UNCHANGED <<dd_mounted, dd_isLoading, dd_calls>>
    /\ UNCHANGED <<dashOthers, user_roles, dash_view, dash_user, dd_jobs>>

\* loadAssignedJobs: the jobs query settles: setJobs(jobsData || []). With
\* jobs found the job_files query is sent; without, or on an error (toast),
\* finally runs.
LoadAssignedJobsJobs(ok, found) ==
    /\ BagIn("jobs", dd_calls)
    /\ dd_jobs' = IF ok THEN found ELSE dd_jobs
    /\ IF ok /\ found
       THEN /\ dd_calls' = Add(Del(dd_calls, "jobs"), "files")
            /\ toast' = "none"
            /\ UNCHANGED dd_isLoading
       ELSE /\ dd_calls' = Del(dd_calls, "jobs")
            /\ toast' = IF ok THEN "none" ELSE "error"
            /\ dd_isLoading' = FALSE
    /\ UNCHANGED <<dashOthers, user_roles, dash_view, dash_user, dr_userRole, dr_isLoading,
                   dr_calls, dd_mounted>>

\* loadAssignedJobs: the job_files query settles; finally runs.
LoadAssignedJobsFiles(ok) ==
    /\ BagIn("files", dd_calls)
    /\ dd_calls' = Del(dd_calls, "files")
    /\ toast' = IF ok THEN "none" ELSE "error"
    /\ dd_isLoading' = FALSE
    /\ UNCHANGED <<dashOthers, user_roles, dash_view, dash_user, dr_userRole, dr_isLoading,
                   dr_calls, dd_mounted, dd_jobs>>

\* Any assignment of roles to the users; no staff screen is open yet.
InitDash ==
    /\ catalogues = [c \in CatIds |-> CatalogueRow(ShopLargePages, CoverNum(1))]
    /\ orders = <<>>
    /\ PvInit
    /\ CartIdle
    /\ isMobile = FALSE
    /\ AppIdle
    /\ ExIdle
    /\ CardIdle
    /\ OrdIdle
    /\ InvIdle
    /\ user_roles \in [UserIds -> Roles \cup {NoRow}]
    /\ dash_view = "none"
    /\ dash_user = Null
    /\ dr_userRole = Null
    /\ dr_isLoading = TRUE
    /\ dr_calls = 0
    /\ dd_mounted = FALSE
    /\ dd_isLoading = TRUE
    /\ dd_jobs = FALSE
    /\ dd_calls = EmptyBag
    /\ toast = "none"

NextDash ==
    \/ \E u \in UserIds : DashMountRouter(u)
    \/ DashOpenDesigner
    \/ \E fault \in QueryFaults : GetUserRoleDone(fault)
    \/ \E ok, found \in BOOLEAN : LoadAssignedJobsJobs(ok, found)
    \/ \E ok \in BOOLEAN : LoadAssignedJobsFiles(ok)

SpecDash == InitDash /\ [][NextDash]_vars

\* Every query that was sent settles.
DashFairness ==
    /\ WF_vars(\E fault \in QueryFaults : GetUserRoleDone(fault))
    /\ WF_vars(\E ok, found \in BOOLEAN : LoadAssignedJobsJobs(ok, found))
    /\ WF_vars(\E ok \in BOOLEAN : LoadAssignedJobsFiles(ok))

SpecDashLive == SpecDash /\ DashFairness


(* ------------------------ invoices and their numbers ------------------- *)
\* Invoice creations in flight at a time, invoices stored, and the readings
\* of Date.now() the fallback number can take.
MaxInvoiceCalls == 2
MaxInvoices == 3
MaxClock == 2

\* what the invoice operations leave alone
invOthers == <<catalogues, orders, customerVars, ordVars, dashVars>>

\* 'INV-' || year || '-' || LPAD(counter, 4, '0') of the current year, and the
\* fallback `INV-${Date.now()}`. An invoice number is kept as its kind and the
\* integer it ends in (SUBSTRING(invoice_number FROM 9) cast to INTEGER gives
\* the counter back for counters of up to four digits).
SeqNumber(counter) == [kind |-> "seq", n |-> counter]
TsNumber(t) == [kind |-> "ts", n |-> t]

\* generate_invoice_number(): COALESCE(MAX(counter of the stored numbers LIKE
\* 'INV-<year>-%'), 0) + 1. The fallback numbers do not match the pattern.
generate_invoice_number ==
    LET S == {x.n : x \in {y \in invoices : y.kind = "seq"}}
    IN  SeqNumber((IF S = {} THEN 0 ELSE CHOOSE m \in S : \A k \in S : k <= m) + 1)

\* createInvoice / createInvoiceFromOrder is called: generateInvoiceNumber()
\* sends the rpc.
CreateInvoice ==
    /\ BagCardinality(inv_calls) < MaxInvoiceCalls
    /\ Cardinality(invoices) + BagCardinality(inv_calls) < MaxInvoices
    /\ inv_calls' = Add(inv_calls, [stage |-> "rpc", number |-> SeqNumber(0)])
    /\ toast' = "none"
    /\ UNCHANGED <<invOthers, invoices>>

\* The rpc settles: its result, or the timestamp fallback of the catch block,
\* becomes the invoice_number of the insert that is sent next.
GenerateInvoiceNumberDone(r, ok, t) ==
    /\ BagIn(r, inv_calls)
    /\ r.stage = "rpc"
    /\ inv_calls' = Add(Del(inv_calls, r),
                        [stage |-> "insert",
                         number |-> IF ok THEN generate_invoice_number ELSE TsNumber(t)])
    /\ toast' = "none"
    /\ UNCHANGED <<invOthers, invoices>>

\* The insert settles: stored (toast Success), or rejected by the request
\* failing or by invoice_number TEXT UNIQUE (toast Error).
InvoiceInsertDone(r, ok) ==
    /\ BagIn(r, inv_calls)
    /\ r.stage = "insert"
    /\ inv_calls' = Del(inv_calls, r)
    /\ IF ok /\ r.number \notin invoices
       THEN /\ invoices' = invoices \cup {r.number}
            /\ toast' = "success"
       ELSE /\ invoices' = invoices
            /\ toast' = "error"
    /\ UNCHANGED invOthers

\* The finance dashboard open on an empty invoices table.
InitInvoices ==
    /\ catalogues = [c \in CatIds |-> CatalogueRow(ShopLargePages, CoverNum(1))]
    /\ orders = <<>>
    /\ PvInit
    /\ CartIdle
    /\ isMobile = FALSE
    /\ AppIdle
    /\ ExIdle
    /\ CardIdle
    /\ StaffIdle
    /\ toast = "none"

NextInvoices ==
    \/ CreateInvoice
    \/ \E r \in DOMAIN inv_calls, ok \in BOOLEAN, t \in 1..MaxClock :
          GenerateInvoiceNumberDone(r, ok, t)
    \/ \E r \in DOMAIN inv_calls, ok \in BOOLEAN : InvoiceInsertDone(r, ok)

SpecInvoices == InitInvoices /\ [][NextInvoices]_vars


(* =============================== claims ================================= *)
\* One catalogue view: the page is mounted and its route parameter has not
\* changed since.
OneView == route = "preview" /\ pv_switches = 0

IsPages1toN(pages, doc) ==
    \A k \in DOMAIN pages : pages[k] = [pageNumber |-> k, doc |-> doc]

\* C1: within one catalogue view the number of materialized pages
\* (pdfPages.length) never decreases and never exceeds pdfDoc.numPages,
\* whatever the interleaving of loadCatalogue and loadMorePages.
C1_LoadedCountMonotoneWithinTotal ==
    [][(OneView /\ OneView') =>
          /\ Len(pv_pdfPages') >= Len(pv_pdfPages)
          /\ (pv_pdfDoc' # Null => Len(pv_pdfPages') <= numPages(pv_pdfDoc'))]_vars

\* C2: within one catalogue view pdfPages is exactly the pages 1..loadedCount
\* in ascending order, each page number once.
C2_PagesAre1toLoadedCount ==
    OneView => \A k \in DOMAIN pv_pdfPages : pv_pdfPages[k].pageNumber = k

\* C3: within one catalogue view the initial load materializes exactly
\* min(totalPages, batch) pages (batch 4 on desktop, 2 on mobile); a load-more
\* request that appends, appends exactly the min(totalPages - loadedCount,
\* batch) pages that follow the loaded ones; once loadedCount equals
\* totalPages the pages no longer change. For 10 pages and batch 4 the
\* successive targets are 4, 8, 10.
C3_BatchSizes ==
    [][(OneView /\ OneView') =>
       /\ \A r \in DOMAIN pv_loads :
             (r.stage = "render" /\ pv_loads' = Del(pv_loads, r) /\ toast' = "none")
             => /\ Len(pv_pdfPages') = Min(numPages(r.id), IF isMobile THEN 2 ELSE 4)
                /\ IsPages1toN(pv_pdfPages', r.id)
       /\ \A r \in DOMAIN pv_mores :
             pv_mores' = Del(pv_mores, r)
             => \/ pv_pdfPages' = pv_pdfPages
                \/ LET n == Len(pv_pdfPages)
                       k == Min(numPages(r.doc) - n, IF isMobile THEN 2 ELSE 4)
                   IN  /\ k >= 0
                       /\ Len(pv_pdfPages') = n + k
                       /\ SubSeq(pv_pdfPages', 1, n) = pv_pdfPages
                       /\ \A i \in 1..k :
                             pv_pdfPages'[n + i] = [pageNumber |-> n + i, doc |-> r.doc]
       /\ (pv_pdfDoc # Null /\ Len(pv_pdfPages) = numPages(pv_pdfDoc))
             => pv_pdfPages' = pv_pdfPages
       /\ initialPages(10, FALSE) = 4
       /\ nextBatch(10, 4, FALSE) = 8
       /\ nextBatch(10, 8, FALSE) = 10
      ]_vars

IsValidPageList(P, n) ==
    /\ \A k \in DOMAIN P : P[k] >= 1 /\ P[k] <= n
    /\ \A j, k \in DOMAIN P : j < k => P[j] < P[k]

\* C4: for an order whose selected_pages P is ascending, duplicate-free and
\* within the source's page count, the document downloadOrderPDF builds has
\* exactly Len(P) pages and its i-th page is the source's page P[i].
C4_ExtractedPagesMatch ==
    \A f \in {ex_file[k] : k \in DOMAIN ex_file} :
        LET o == orders[f.order]
            P == o.selected_pages
        IN  IsValidPageList(P, numPages(o.catalogue_id))
            => /\ Len(f.pages) = Len(P)
               /\ \A i \in DOMAIN P :
                     f.pages[i] = [pageNumber |-> P[i], doc |-> o.catalogue_id]

\* A file built from a valid list of at least two pages that does not start
\* at page 1.
C4_Witness ==
    /\ ex_file # <<>>
    /\ LET P == orders[ex_file[1].order].selected_pages
       IN  /\ IsValidPageList(P, numPages(orders[ex_file[1].order].catalogue_id))
           /\ Len(P) >= 2
           /\ P[1] > 1

\* C9: the page number loadCoverImage hands to pdf.getPage is within
\* [1, numPages] for every stored cover_page.
C9_CoverPageInRange ==
    \A k \in DOMAIN card_pageNum :
        card_pageNum[k] >= 1 /\ card_pageNum[k] <= numPages(card_catalogue)

\* C5: every order row created by checkout has selected_pages strictly
\* ascending, duplicate-free and within [1, page count] of the catalogue its
\* catalogue_id references.
C5_OrderPagesValid ==
    \A k \in DOMAIN orders :
        IsValidPageList(orders[k].selected_pages, numPages(orders[k].catalogue_id))

\* C6: a submission whose selected pages include a number greater than the
\* page count of the referenced catalogue does not pass handleSubmitOrder's
\* validation, and no order row with such a page is created.
C6_OutOfRangeRejected ==
    [][/\ (route = "cart" /\ ~cart_isSubmitting /\ cart_isSubmitting')
          => \A k \in DOMAIN cart_selectedPages :
                cart_selectedPages[k] <= numPages(cart_catalogueId)
       /\ Len(orders') > Len(orders)
          => LET row == orders'[Len(orders')]
             IN  \A k \in DOMAIN row.selected_pages :
                    row.selected_pages[k] <= numPages(row.catalogue_id)]_vars

\* C7: a second toggle of the same page right after the first leaves the
\* selection with exactly the membership it had before the first toggle.
C7_DoubleToggleRestores ==
    (Len(sel_last) = 2 /\ sel_last[1].page = sel_last[2].page)
    => Members(app_selectedItems) = sel_last[2].before

\* Page 5 was toggled twice in a row on a selection that held 2, 5 and 9.
C7_Witness ==
    /\ Len(sel_last) = 2
    /\ sel_last[1].page = 5
    /\ sel_last[2].page = 5
    /\ sel_last[2].before = {2, 5, 9}
    /\ Members(app_selectedItems) = {2, 5, 9}

IsAscending(s) == \A j, k \in DOMAIN s : j < k => s[j] < s[k]

\* C8: whatever distinct pages were toggled in, in whatever order, the
\* ascending enumeration (cart list, selected_pages) holds exactly the pages
\* of the selection, sorted by numeric value; 5, 2, 9 gives [2, 5, 9], and
\* toggling 5 again gives [2, 9].
C8_AscendingList ==
    LET list == sortAscending(app_selectedItems)
    IN  /\ IsAscending(list)
        /\ Members(list) = Members(app_selectedItems)
        /\ Len(list) = Len(app_selectedItems)
        /\ app_selectedItems = <<5, 2, 9>> => list = <<2, 5, 9>>
        /\ (/\ sel_last # <<>>
            /\ sel_last[1] = [page |-> 5, before |-> {2, 5, 9}]) => list = <<2, 9>>

\* 5, 2, 9 were toggled in, then 5 was toggled out; the cart list is shown.
C8_Witness ==
    /\ app_currentView = "cart"
    /\ sel_last # <<>>
    /\ sel_last[1] = [page |-> 5, before |-> {2, 5, 9}]
    /\ sortAscending(app_selectedItems) = <<2, 9>>

\* C10: a loadCatalogue call of CatalogueApp that completes after the session
\* was reset or another catalogue was chosen changes neither pdfPages nor the
\* current view and shows no error.
C10_StaleLoadDiscarded ==
    [][\A c \in CatIds :
          (/\ CopiesIn(c, app_loads') < CopiesIn(c, app_loads)
           /\ c # app_selectedCatalogue)
          => /\ app_pdfPages' = app_pdfPages
             /\ app_currentView' = app_currentView
             /\ toast' # "error"]_vars

\* C11: a load-more batch in which a page fails to decode leaves pdfPages
\* (and so loadedCount) as they were; the request offered next covers the same
\* page range, and when that request succeeds the range is appended.
C11_FailedBatchLeavesNothing ==
    /\ (Len(more_last) >= 1 /\ ~more_last[1].ok) =>
          /\ pv_pdfPages = more_last[1].before
          /\ (more_last[1].call.len = Len(pv_pdfPages) /\ more_last[1].call.doc = pv_pdfDoc) =>
                /\ LoadMoreShown
                /\ ~loadMoreReturnsEarly
                /\ nextBatch(numPages(pv_pdfDoc), Len(pv_pdfPages), isMobile)
                      = more_last[1].call.to
    /\ (Len(more_last) = 2 /\ ~more_last[2].ok) =>
          /\ more_last[1].before = more_last[2].before
          /\ (more_last[1].ok /\ more_last[1].call = more_last[2].call) =>
                pv_pdfPages = more_last[2].before
                                \o renderPages(more_last[2].call.doc,
                                               more_last[2].call.len + 1,
                                               more_last[2].call.to)

\* A batch failed while no other request was in flight, and the request made
\* after it, for the same range, succeeded.
C11_Witness ==
    /\ Len(more_last) = 2
    /\ ~more_last[2].ok
    /\ more_last[2].others = 0
    /\ more_last[2].call.len = Len(more_last[2].before)
    /\ more_last[1].ok
    /\ more_last[1].call = more_last[2].call
    /\ Len(pv_pdfPages) = more_last[2].call.to

\* C12: when the fetch or a page decode of the initial load of a catalogue
\* fails, an error is shown and nothing of the failed load remains: no page is
\* materialized and neither catalogue nor pdfDoc stays set.
C12_FailedLoadLeavesNothing ==
    [][OneView =>
         \A r \in DOMAIN pv_loads :
            (LoadCatalogueFetch(r, FALSE) \/ LoadCatalogueRender(r, FALSE))
            => /\ toast' = "error"
               /\ pv_pdfPages' = <<>>
               /\ pv_catalogue' = Null
               /\ pv_pdfDoc' = Null
      ]_vars

\* Customer name, email and phone are all non-empty.
HasContact(customer) == customer.name # "" /\ customer.email # "" /\ customer.phone # ""

HasPageOutOfRange(o) ==
    \E k \in DOMAIN orders[o].selected_pages :
        \/ orders[o].selected_pages[k] < 1
        \/ orders[o].selected_pages[k] > numPages(orders[o].catalogue_id)

\* C16: when the source cannot be fetched or parsed, or a page number of the
\* order is outside the source's page range, downloadOrderPDF produces no file
\* (no file is ever one of an order with a page out of range) and shows an
\* error; an order whose catalogue the panel does not know is refused at once.
C16_DownloadFailsAsAWhole ==
    /\ [](\A k \in DOMAIN ex_file : ~HasPageOutOfRange(ex_file[k].order))
    /\ [][\A o \in DOMAIN orders :
            /\ (DownloadOrderPDFDone(o, FALSE)
                  \/ (HasPageOutOfRange(o) /\ \E ok \in BOOLEAN : DownloadOrderPDFDone(o, ok)))
               => (ex_file' = ex_file /\ toast' = "error")
            /\ (DownloadOrderPDF(o) /\ orders[o].catalogue_id \notin admin_catalogues)
               => (ex_file' = ex_file /\ ex_calls' = ex_calls /\ toast' = "error")
         ]_vars

\* A download of an order holding a page of the source and a page outside it
\* has ended with the error toast and without a file.
C16_Witness ==
    /\ ex_calls = EmptyBag
    /\ ex_file = <<>>
    /\ toast = "error"
    /\ orders[1].catalogue_id \in admin_catalogues
    /\ HasPageOutOfRange(1)
    /\ \E k \in DOMAIN orders[1].selected_pages :
          /\ orders[1].selected_pages[k] >= 1
          /\ orders[1].selected_pages[k] <= numPages(orders[1].catalogue_id)

\* C17: the selection never mixes catalogues: at the latest when the tiles of
\* a different catalogue replace the ones shown, the selection made on the
\* previous catalogue is empty.
C17_SelectionOfOneCatalogue ==
    [][/\ (route = "preview" /\ route' = "preview"
             /\ pv_pdfPages # <<>> /\ pv_pdfPages' # <<>>
             /\ pv_pdfPages'[1].doc # pv_pdfPages[1].doc)
          => pv_selectedItems' = <<>>
       /\ (app_pdfPages # <<>> /\ app_pdfPages' # <<>>
             /\ app_pdfPages'[1].doc # app_pdfPages[1].doc)
          => app_selectedItems' = <<>>
      ]_vars

\* C18: after a successful submission the selection is emptied before any
\* further selection or submission takes place: while the success state
\* stands, the selection of the submitted order only changes by being cleared
\* and no insert is issued; resetApp and clearCart leave an empty selection.
C18_SelectionClearedAfterSubmit ==
    [][/\ (app_showSuccess /\ app_selectedItems # <<>>)
          => /\ app_selectedItems' \in {app_selectedItems, <<>>}
             /\ \A r \in DOMAIN app_submits' : r.stage = "insert" => BagIn(r, app_submits)
       /\ (cart_showSuccess /\ cart_selectedPages # <<>>)
          => /\ cart_selectedPages' \in {cart_selectedPages, <<>>}
             /\ \A r \in DOMAIN cart_submits' : r.stage = "insert" => BagIn(r, cart_submits)
       /\ AppResetApp => app_selectedItems' = <<>>
       /\ CartClearCart => cart_selectedPages' = <<>>
      ]_vars

\* C19: the page loadCoverImage asks for is the override cover_page whenever
\* that is present and within [1, numPages], and page 1 when no override is
\* set (cover_page null or undefined).
C19_CoverOverrideOrFirstPage ==
    \A k \in DOMAIN card_pageNum :
        LET cover_page == catalogues[card_catalogue].cover_page
        IN  /\ (cover_page.k = "num" /\ cover_page.n >= 1
                  /\ cover_page.n <= numPages(card_catalogue))
               => /\ card_pageNum[k] = cover_page.n
                  /\ card_coverImage = <<[pageNumber |-> cover_page.n, doc |-> card_catalogue]>>
            /\ cover_page.k # "num"
               => /\ card_pageNum[k] = 1
                  /\ card_coverImage = <<[pageNumber |-> 1, doc |-> card_catalogue]>>

\* The cover of a catalogue whose override names a page after the first, within
\* the document, has been rendered.
C19_Witness ==
    /\ card_pageNum # <<>>
    /\ card_coverImage # <<>>
    /\ catalogues[card_catalogue].cover_page.k = "num"
    /\ catalogues[card_catalogue].cover_page.n > 1
    /\ catalogues[card_catalogue].cover_page.n <= numPages(card_catalogue)

\* C20: an override cover_page outside [1, numPages] is clamped to numPages:
\* the page asked for is the last page, and it is rendered (getPage does not
\* reject).
C20_OutOfRangeCoverClamped ==
    \A k \in DOMAIN card_pageNum :
        LET cover_page == catalogues[card_catalogue].cover_page
        IN  (cover_page.k = "num"
               /\ (cover_page.n < 1 \/ cover_page.n > numPages(card_catalogue)))
            => /\ card_pageNum[k] = numPages(card_catalogue)
               /\ ~getPageRejects(card_pageNum[k], card_catalogue)
               /\ card_coverImage
                    = <<[pageNumber |-> numPages(card_catalogue), doc |-> card_catalogue]>>

C22_OnlyStatusChanges ==
    [][/\ \A j \in DOMAIN orders : \A k \in DOMAIN orders' :
             orders[j].id = orders'[k].id
             => /\ orders'[k].selected_pages = orders[j].selected_pages
                /\ orders'[k].catalogue_id = orders[j].catalogue_id
                /\ orders'[k].catalogue_name = orders[j].catalogue_name
                /\ orders'[k].customer = orders[j].customer
       /\ (\E c \in CatIds : CheckoutInsert(c, <<1, 2>>))
          => SubSeq(orders', 1, Len(orders)) = orders
      ]_vars

\* An order whose status was changed and whose catalogue was renamed after the
\* order was stored.
C22_Witness ==
    \E k \in DOMAIN orders :
        /\ orders[k].status = "completed"
        /\ orders[k].catalogue_id \in DOMAIN catalogue_names
        /\ catalogue_names[orders[k].catalogue_id] # orders[k].catalogue_name

\* C23: the pages of a batch become visible all together. Every step that
\* changes pdfPages (and so loadedCount, its length) either resets it, sets it
\* to the complete initial batch of a load that was rendering, or appends the
\* complete page range of one load-more request; no step exposes fewer pages
\* than the batch holds.
C23_BatchVisibleAsAWhole ==
    [][\/ pv_pdfPages' = pv_pdfPages
       \/ pv_pdfPages' = <<>>
       \/ \E r \in DOMAIN pv_loads :
             /\ r.stage = "render"
             /\ pv_pdfPages' = renderPages(r.id, 1, Min(numPages(r.id), BatchSize(isMobile)))
       \/ \E r \in DOMAIN pv_mores :
             /\ r.to = Min(numPages(r.doc), r.len + BatchSize(isMobile))
             /\ pv_pdfPages' = pv_pdfPages \o renderPages(r.doc, r.len + 1, r.to)]_vars

\* An initial batch and one further batch of several pages are on display and
\* nothing is in flight.
C23_Witness ==
    /\ route = "preview"
    /\ pv_pdfDoc # Null
    /\ pv_loads = EmptyBag
    /\ pv_mores = EmptyBag
    /\ BatchSize(isMobile) >= 2
    /\ Len(pv_pdfPages) = 2 * BatchSize(isMobile)
    /\ pv_pdfPages = renderPages(pv_pdfDoc, 1, Len(pv_pdfPages))


\* C24: in CatalogueApp, whenever the catalogue or the cart view is shown, the
\* pages on display were decoded from the file of selectedCatalogue, so an
\* order is submitted under the catalogue its pages were selected from.
C24_PagesOfSelectedCatalogue ==
    app_currentView \in {"catalogue", "cart"}
    => /\ app_selectedCatalogue # Null
       /\ \A k \in DOMAIN app_pdfPages : app_pdfPages[k].doc = app_selectedCatalogue


\* C25: in CatalogueApp isSubmitting is true only while a submission is in
\* progress or its success screen is shown; once the auto-reset has returned
\* the app to the home view it is false again.
C25_SubmittingOnlyWhileInProgress ==
    app_isSubmitting => (app_submits # EmptyBag \/ app_showSuccess)


\* C26: one submission creates at most one order. A handleSubmitOrder call
\* starts an insert only when no call started from the same cart (by this
\* mount of CartPage; in CatalogueApp since the cart was last emptied by a
\* reset) has an insert in flight or has had its insert succeed.
C26_OneInsertPerSubmission ==
    [][/\ (\E r \in DOMAIN app_submits' :
              /\ r.stage = "insert"
              /\ ~r.old
              /\ CopiesIn(r, app_submits') > CopiesIn(r, app_submits))
          => \A q \in DOMAIN app_submits : q.old
       /\ (\E r \in DOMAIN cart_submits' :
              /\ r.stage = "insert"
              /\ ~r.dead
              /\ CopiesIn(r, cart_submits') > CopiesIn(r, cart_submits))
          => \A q \in DOMAIN cart_submits : q.dead
      ]_vars


\* C27: when the order insert fails, no order is stored, no notification is
\* requested, the success state is not entered, an error is shown,
\* isSubmitting is false again, and selection and customer information are
\* left as they are, so the form on display accepts the submission again.
C27_FailedInsertCanBeRetried ==
    [][/\ \A r \in DOMAIN app_submits :
             AppInsertDone(r, FALSE)
             => /\ orders' = orders
                /\ \A q \in DOMAIN app_submits' : q.stage = "notify" => BagIn(q, app_submits)
                /\ app_showSuccess' = app_showSuccess
                /\ app_timers' = app_timers
                /\ toast' = "error"
                /\ ~app_isSubmitting'
                /\ app_selectedItems' = app_selectedItems
                /\ app_customerInfo' = app_customerInfo
                /\ app_selectedCatalogue' = app_selectedCatalogue
       /\ \A r \in DOMAIN cart_submits :
             (CartInsertDone(r, FALSE) /\ ~r.dead)
             => /\ orders' = orders
                /\ \A q \in DOMAIN cart_submits' : q.stage = "notify" => BagIn(q, cart_submits)
                /\ cart_showSuccess' = cart_showSuccess
                /\ cart_timers' = cart_timers
                /\ toast' = "error"
                /\ ~cart_isSubmitting'
                /\ cart_selectedPages' = cart_selectedPages
                /\ cart_customerInfo' = cart_customerInfo
                /\ cart_catalogueId' = cart_catalogueId
      ]_vars

\* An insert of CatalogueApp has failed: the cart form is shown again, enabled,
\* with the selection and the contact fields of the failed submission.
C27_Witness ==
    /\ toast = "error"
    /\ app_currentView = "cart"
    /\ ~app_isSubmitting
    /\ ~app_showSuccess
    /\ app_submits = EmptyBag
    /\ orders = <<>>
    /\ app_selectedItems # <<>>
    /\ app_selectedCatalogue # Null
    /\ HasContact(app_customerInfo)


\* A loading screen is on display: that of DashboardRouter, or that of the
\* DesignerDashboard it renders or of the one on the direct route.
LoadingShown ==
    \/ dash_view = "router" /\ dr_isLoading
    \/ dd_mounted /\ dd_isLoading

\* C28: every dashboard load terminates: once a staff screen is open,
\* getUserRole and loadAssignedJobs eventually have isLoading false, with or
\* without a signed-in user, so the loading screen does not stay forever.
C28_DashboardLoadTerminates == (dash_view # "none") ~> ~LoadingShown

\* C29: when DashboardRouter has finished loading, the only staff dashboard
\* it shows is that of the role stored for the user in user_roles; a user
\* without a role row, or whose lookup failed, sees "No Role Assigned".
C29_DashboardOfStoredRole ==
    (dash_view = "router" /\ ~dr_isLoading)
    => \/ routerShows = "no-role"
       \/ user_roles[dash_user] # NoRow /\ routerShows = user_roles[dash_user]


\* C30: an invoice creation whose number came from generate_invoice_number
\* stores its invoice under a number no other invoice has: when its insert
\* reaches the table, the number is not taken and the invoice is stored.
C30_NoCreationLostToDuplicate ==
    [][\A r \in DOMAIN inv_calls :
          (r.stage = "insert" /\ r.number.kind = "seq" /\ InvoiceInsertDone(r, TRUE))
          => /\ r.number \notin invoices
             /\ r.number \in invoices'
             /\ toast' = "success"]_vars


====
